---- MODULE Spec2Model ----
(***************************************************************************)
(* Design-patent ingestion (scripts/import_design_patents_full.py): the    *)
(* append/recreate run, the paginated scan of the existing keys, the       *)
(* batch writer with its per-record fallback, and the failure ledger.      *)
(*                                                                         *)
(* A Python string is a sequence of one-character strings; None is the     *)
(* one-element sequence None below, which no text equals.                  *)
(***************************************************************************)
EXTENDS Integers, Sequences, FiniteSets, TLC

(* ------------------------------ strings -------------------------------- *)

None == << "<None>" >>

Rep(c, n) == [i \in 1..n |-> c]

Digits == << "0", "1", "2", "3", "4", "5", "6", "7", "8", "9" >>

RECURSIVE Dec(_)
Dec(n) == IF n < 10 THEN << Digits[n + 1] >>
          ELSE Dec(n \div 10) \o << Digits[(n % 10) + 1] >>

SetMax(S) == CHOOSE x \in S : \A y \in S : y <= x

(* --------------------------- program constants ------------------------- *)

INSERT_BATCH_SIZE == 16
MAX_VARCHAR_LEN == 4096
GC_INTERVAL == 100
PROGRESS_INTERVAL == 50
QUERY_LIMIT == 500
LEN_PATENT_ID == 256
LEN_FILE_NAME == 1024
LEN_FILE_PATH == 2048
LEN_LOC == 256
LEN_CLAIM_PARSED == 500
GRANT_TERM_DEFAULT == 15
SAVE_INTERVAL == 100

MINIO_PREFIX == << "d","e","s","i","g","n","_","p","a","t","e","n","t","s" >>

\* get_url: "<protocol>://<endpoint>/<bucket>/" + object_name; the endpoint
\* and the bucket come from the deployment's configuration.
UrlBase == << "h","t","t","p",":","/","/","m","/","b","/" >>

(* ------------------------------- bounds -------------------------------- *)

MaxRuns == 2        \* runs of the script in one behaviour
MaxFaults == 2      \* environment faults in one behaviour
TailImages == 2     \* images of the big corpus beyond one full batch
KeysExtra == 1      \* rows of the scanned collection beyond one full page
OmitStep == 100     \* spacing of the places where a full page leaves rows out
MaxFewRows == 30    \* rows of the largest of the small collections that are scanned
MaxStrLen == 4      \* longest text handed to truncate_str on its own
MaxLenArg == 5      \* largest max_len handed to truncate_str on its own
MaxTopK == 3        \* largest top_k of a search
MaxHits == 3        \* longest hit list handed to group_by_patent on its own
MaxCalls == 2       \* calls of group_by_patent on its own in one behaviour
MaxEntries == 3     \* most entries of a directory that is scanned
MaxUploads == 3     \* calls of upload_image_to_minio on its own
FlatTail == 2       \* files of the flat corpus beyond one saving interval
FlatBatchSize == 3  \* BATCH_SIZE of the flat-corpus import (set in app.config)
FlatPending == 7    \* files that are pending in a run of the flat-corpus import
MaxRequests == 3    \* requests to the batch endpoints in one behaviour
MaxConnects == 4    \* calls of MinIOService.connect in one behaviour

(* ------------------------------ the corpus ----------------------------- *)

\* What parse_design_patent_xml returns for a directory: the texts are
\* whatever the XML holds, claim_text is cut to 500 by the parser and
\* image_count is the length of the image list.
Patent(pid, title, imgs) ==
  [patent_id |-> pid, title |-> title,
   loc_class |-> << "0","1" >>, loc_edition |-> << "9" >>,
   pub_date |-> 20250101, filing_date |-> 20240101,
   grant_term |-> GRANT_TERM_DEFAULT,
   applicant_name |-> << "a" >>, applicant_country |-> << "U","S" >>,
   inventor_names |-> << "i" >>, assignee_name |-> << >>,
   claim_text |-> << "c" >>,
   images |-> imgs, image_count |-> Len(imgs),
   data_dir |-> << "/" >> \o pid]

Files(n) == [j \in 1..n |-> Dec(j) \o << ".","T" >>]

\* A patent every text of which is one character over its column.
LongPatent ==
  [patent_id |-> Rep("P", LEN_PATENT_ID + 1),
   title |-> Rep("t", MAX_VARCHAR_LEN + 1),
   loc_class |-> Rep("l", LEN_LOC + 1),
   loc_edition |-> Rep("e", LEN_LOC + 1),
   pub_date |-> 0, filing_date |-> 0, grant_term |-> GRANT_TERM_DEFAULT,
   applicant_name |-> Rep("a", MAX_VARCHAR_LEN + 1),
   applicant_country |-> Rep("c", LEN_LOC + 1),
   inventor_names |-> Rep("i", MAX_VARCHAR_LEN + 1),
   assignee_name |-> Rep("s", MAX_VARCHAR_LEN + 1),
   claim_text |-> Rep("x", LEN_CLAIM_PARSED),
   images |-> << Rep("f", LEN_FILE_NAME + 1) >>, image_count |-> 1,
   data_dir |-> << "/", "L" >>]

\* Two patents of two images each (the end-to-end scenarios).
ScenarioCorpus ==
  << Patent(<< "D","1" >>, << "x" >>, Files(2)),
     Patent(<< "D","2" >>, << >>, Files(2)) >>

\* The same figure file listed twice by one patent, and a patent without
\* images.
DupCorpus ==
  << Patent(<< "D","3" >>, << "y" >>, << << "1",".","T" >>, << "1",".","T" >> >>),
     Patent(<< "D","4" >>, << "z" >>, << >>) >>

LongCorpus == << LongPatent >>

\* One full batch that crosses a patent boundary, and a partial last batch.
BigCorpus ==
  << Patent(<< "D","5" >>, << "b" >>, Files(INSERT_BATCH_SIZE - 1)),
     Patent(<< "D","6" >>, << "b" >>, Files(1 + TailImages)) >>

\* As many images as one page of the key scan holds, and some more.
WideCorpus ==
  << Patent(<< "D","7" >>, << >>, Files(QUERY_LIMIT + KeysExtra)) >>

\* As many images as one reclamation interval, the last of them the second
\* image of its patent.
LongRunCorpus ==
  << Patent(<< "D","8" >>, << "g" >>, Files(GC_INTERVAL - 2)),
     Patent(<< "D","9" >>, << "g" >>, Files(2)) >>

\* The patents a search runs over: X with two images, Y with one, of
\* different title, class and applicant.
SearchCorpus ==
  << Patent(<< "X" >>, << "a","b" >>, Files(2)),
     [Patent(<< "Y" >>, << "b" >>, Files(1))
        EXCEPT !.loc_class = << "0","2" >>, !.applicant_name = << "c","a" >>] >>

\* What the loop of line 229 goes through when --data-dir names no
\* directory and the generator of line 214 yields nothing. main imports
\* scan_all_design_patents from design_patent_parser (line 33), which does
\* not define it: whether the generator yields nothing or raises for such a
\* root is not in the sources, and both are taken (ScanRaises).
MissingRootCorpus == << >>

\* Two patents whose doc-number and figure file name differ and join to the
\* same text around the underscore: D1_2 with 3.T, and D1 with 2_3.T.
AmbiguousCorpus ==
  << Patent(<< "D","1","_","2" >>, << "u" >>, << << "3",".","T" >> >>),
     Patent(<< "D","1" >>, << "v" >>,
            << << "1",".","T" >>, << "2","_","3",".","T" >> >>) >>

Corpora ==
  [scenario |-> ScenarioCorpus, dup |-> DupCorpus, long |-> LongCorpus,
   big |-> BigCorpus, wide |-> WideCorpus, longrun |-> LongRunCorpus,
   search |-> SearchCorpus, missing |-> MissingRootCorpus,
   ambiguous |-> AmbiguousCorpus]

\* The directory --data-dir names exists.
RootExists(c) == c # "missing"

SmallCorpusIds == {"scenario", "dup", "long"}

NumImages(c) ==
  LET RECURSIVE Sum(_)
      Sum(k) == IF k = 0 THEN 0 ELSE Sum(k - 1) + Len(Corpora[c][k].images)
  IN Sum(Len(Corpora[c]))

\* The environment's faults are drawn at few places: the second image of a
\* patent may be missing on disk, fail to upload or fail to extract; the
\* store may reject the records of a patent's first and third image.
Flaky(img_idx) == img_idx = 1
Suspect(img_idx) == img_idx \in {0, 2}

(* --------------------------- pure functions ---------------------------- *)

\* truncate_str with the cut taken from the wrong end.
truncate_str_tail(s, max_len) ==
  IF s = None THEN << >>
  ELSE IF Len(s) > max_len THEN SubSeq(s, Len(s) - max_len + 1, Len(s)) ELSE s

\* truncate_str: None gives "", a longer text its first max_len characters.
truncate_str(s, max_len) ==
  IF s = None THEN << >>
  ELSE IF Len(s) > max_len THEN SubSeq(s, 1, max_len) ELSE s

\* f"{patent_id}_{file_name}"
DedupKey(pid, file) == pid \o << "_" >> \o file

\* f"{MINIO_PREFIX}/{patent_id}/{file_name}"
ObjectName(pid, file) == MINIO_PREFIX \o << "/" >> \o pid \o << "/" >> \o file

GetUrl(object_name) == UrlBase \o object_name

\* dinov2_base_extractor.extract_single(local_path): the features of that
\* file, named here by the file they were taken from.
Embedding(patent, file) == << patent.data_dir, file >>

\* The dict appended to batch_data.
MakeRecord(patent, img_idx, img_file, minio_url, now) ==
  [patent_id |-> truncate_str(patent.patent_id, LEN_PATENT_ID),
   image_index |-> img_idx,
   file_name |-> truncate_str(img_file, LEN_FILE_NAME),
   file_path |-> truncate_str(minio_url, LEN_FILE_PATH),
   embedding |-> Embedding(patent, img_file),
   title |-> truncate_str(patent.title, MAX_VARCHAR_LEN),
   loc_class |-> truncate_str(patent.loc_class, LEN_LOC),
   loc_edition |-> truncate_str(patent.loc_edition, LEN_LOC),
   pub_date |-> patent.pub_date,
   filing_date |-> patent.filing_date,
   grant_term |-> patent.grant_term,
   applicant_name |-> truncate_str(patent.applicant_name, MAX_VARCHAR_LEN),
   applicant_country |-> truncate_str(patent.applicant_country, LEN_LOC),
   inventor_names |-> truncate_str(patent.inventor_names, MAX_VARCHAR_LEN),
   assignee_name |-> truncate_str(patent.assignee_name, MAX_VARCHAR_LEN),
   claim_text |-> truncate_str(patent.claim_text, MAX_VARCHAR_LEN),
   image_count |-> patent.image_count,
   created_at |-> now]

\* The max_length of the VARCHAR fields of the collection schema.
SchemaMaxLen ==
  [patent_id |-> 256, file_name |-> 1024, file_path |-> 2048,
   title |-> MAX_VARCHAR_LEN, loc_class |-> 256, loc_edition |-> 256,
   applicant_name |-> MAX_VARCHAR_LEN, applicant_country |-> 256,
   inventor_names |-> MAX_VARCHAR_LEN, assignee_name |-> MAX_VARCHAR_LEN,
   claim_text |-> MAX_VARCHAR_LEN]

\* The row the store keeps for an inserted record (auto_id primary key).
Row(d, id) == [id |-> id] @@ d

(* ------------------------------- search ------------------------------- *)

\* The texts the filters are built from.
TitleLikeHead == << "t","i","t","l","e"," ","l","i","k","e"," ","\"","%" >>
LikeTail == << "%","\"" >>
LocClassHead == << "l","o","c","_","c","l","a","s","s"," ","=","="," ","\"" >>
EqTail == << "\"" >>
ApplicantLikeHead == << "a","p","p","l","i","c","a","n","t","_","n","a","m","e"," ","l","i","k","e"," ","\"","%" >>
AndSep == << " ","a","n","d"," " >>

\* `if keyword:` and the like: None and "" are both left out.
Truthy(s) == s # None /\ s # << >>

\* filters, as search builds the list (lines 78-84).
Filters(keyword, loc_class, applicant) ==
  (IF Truthy(keyword) THEN << TitleLikeHead \o keyword \o LikeTail >> ELSE << >>)
    \o (IF Truthy(loc_class)
          THEN << LocClassHead \o loc_class \o EqTail >> ELSE << >>)
    \o (IF Truthy(applicant)
          THEN << ApplicantLikeHead \o applicant \o LikeTail >> ELSE << >>)

\* sep.join(parts)
RECURSIVE Join(_, _)
Join(parts, sep) ==
  IF parts = << >> THEN << >>
  ELSE IF Len(parts) = 1 THEN parts[1]
  ELSE parts[1] \o sep \o Join(Tail(parts), sep)

\* The filters put together with " or " between them.
FilterExprAny(filters) ==
  IF filters # << >> THEN Join(filters, << " ","o","r"," " >>) ELSE None

\* expr = " and ".join(filters) if filters else None
FilterExpr(filters) ==
  IF filters # << >> THEN Join(filters, AndSep) ELSE None

\* limit=top_k * 2
SearchLimit(top_k) == top_k * 2

(* ------------------------ the store's side of a search ----------------- *)

StartsWith(s, head) ==
  Len(s) >= Len(head) /\ SubSeq(s, 1, Len(head)) = head

EndsWith(s, tail) ==
  Len(s) >= Len(tail) /\ SubSeq(s, Len(s) - Len(tail) + 1, Len(s)) = tail

Between(s, head, tail) == SubSeq(s, Len(head) + 1, Len(s) - Len(tail))

Contains(text, sub) ==
  \E i \in 1..(Len(text) - Len(sub) + 1) :
    SubSeq(text, i, i + Len(sub) - 1) = sub

\* The operands of a boolean expression, `and` between them.
RECURSIVE Operands(_)
Operands(expr) ==
  LET cuts == {i \in 1..(Len(expr) - Len(AndSep) + 1) :
                 SubSeq(expr, i, i + Len(AndSep) - 1) = AndSep}
  IN IF cuts = {} THEN << expr >>
     ELSE LET i == CHOOSE x \in cuts : \A y \in cuts : x <= y
          IN << SubSeq(expr, 1, i - 1) >>
               \o Operands(SubSeq(expr, i + Len(AndSep), Len(expr)))

\* A row satisfies one comparison of a boolean expression.
Satisfies(row, cmp) ==
  IF StartsWith(cmp, TitleLikeHead) /\ EndsWith(cmp, LikeTail)
    THEN Contains(row.title, Between(cmp, TitleLikeHead, LikeTail))
  ELSE IF StartsWith(cmp, LocClassHead) /\ EndsWith(cmp, EqTail)
    THEN row.loc_class = Between(cmp, LocClassHead, EqTail)
  ELSE IF StartsWith(cmp, ApplicantLikeHead) /\ EndsWith(cmp, LikeTail)
    THEN Contains(row.applicant_name, Between(cmp, ApplicantLikeHead, LikeTail))
  ELSE FALSE

\* A row satisfies the expression of a search; no expression, no constraint.
Matches(row, expr) ==
  IF expr = None THEN TRUE
  ELSE \A k \in DOMAIN Operands(expr) : Satisfies(row, Operands(expr)[k])

(* ----------------------- the objects of a call ------------------------ *)

\* A list and a dict are objects: a call that is handed one may change it
\* under its caller's eyes. The heap holds every dict and every list at its
\* address; a list holds the addresses of its items, and the dict of a
\* group holds under "pages" the address of its list of pages.
NoHeap == [dicts |-> << >>, lists |-> << >>]

\* {...}: a dict is made, at the next address.
NewDict(heap, d) == [heap EXCEPT !.dicts = Append(@, d)]

\* [...], list(...), sorted(...): a list is made, at the next address.
NewList(heap, items) == [heap EXCEPT !.lists = Append(@, items)]

\* The list of hit dicts a search returns, made at the next addresses.
WithHits(heap, hits) ==
  NewList([heap EXCEPT !.dicts = @ \o hits],
          [i \in DOMAIN hits |-> Len(heap.dicts) + i])

\* What the holder of the list at address a finds in it: its dicts, in its
\* order.
ListValue(heap, a) ==
  [i \in DOMAIN heap.lists[a] |-> heap.dicts[heap.lists[a][i]]]

\* What the caller finds in the list of groups at address a: the dict of
\* each group with its pages.
GroupsValue(heap, a) ==
  [k \in DOMAIN heap.lists[a] |->
     LET g == heap.dicts[heap.lists[a][k]]
     IN [g EXCEPT !.pages = ListValue(heap, g.pages)]]

(* --------------------- group_by_patent (search_design) ----------------- *)

\* The page of a hit (lines 27-33).
Page(r) ==
  [id |-> r.id, image_index |-> r.image_index, file_name |-> r.file_name,
   file_path |-> r.file_path, score |-> r.score]

\* The metadata of a hit (lines 36-46).
Metadata(r) ==
  [title |-> r.title, loc_class |-> r.loc_class, pub_date |-> r.pub_date,
   filing_date |-> r.filing_date, applicant_name |-> r.applicant_name,
   applicant_country |-> r.applicant_country,
   inventor_names |-> r.inventor_names, claim_text |-> r.claim_text,
   image_count |-> r.image_count]

\* A dict of groups that a call finds filled by the call before it.
GroupsLeft(left) == left

\* groups = defaultdict(...) (line 23): empty at every call, whatever the
\* call before it left behind.
NewGroups(left) == << >>

\* groups[patent_id] of a patent that has no group yet (the defaultdict of
\* line 23): a group with a new, empty list of pages. st: the heap and
\* groups, the groups in the order of their first hit.
WithGroup(st, patent_id, metadata) ==
  IF \E k \in DOMAIN st.groups : st.groups[k].patent_id = patent_id THEN st
  ELSE [heap |-> NewList(st.heap, << >>),
        groups |-> Append(st.groups,
                          [patent_id |-> patent_id,
                           pages |-> Len(st.heap.lists) + 1,
                           metadata |-> metadata])]

\* The loop over the hits with the metadata stored at every hit, so that a
\* group ends with the metadata of its last hit.
RECURSIVE AccumulateLastWins(_, _)
AccumulateLastWins(st, refs) ==
  IF refs = << >> THEN st
  ELSE LET r == st.heap.dicts[Head(refs)]
           made == WithGroup(st, r.patent_id, Metadata(r))
           k == CHOOSE x \in DOMAIN made.groups :
                  made.groups[x].patent_id = r.patent_id
           paged == NewDict(made.heap, Page(r))
       IN AccumulateLastWins(
            [heap |-> [paged EXCEPT !.lists[made.groups[k].pages] =
                                       Append(@, Len(paged.dicts))],
             groups |-> [made.groups EXCEPT ![k].metadata = Metadata(r)]],
            Tail(refs))

\* The loop over the hits (lines 25-46), refs the addresses of the hits
\* that are left: each hit is read, its page is a new dict appended to the
\* list of pages of its group, and the group keeps the metadata of its
\* first hit.
RECURSIVE Accumulate(_, _)
Accumulate(st, refs) ==
  IF refs = << >> THEN st
  ELSE LET r == st.heap.dicts[Head(refs)]
           made == WithGroup(st, r.patent_id, Metadata(r))
           k == CHOOSE x \in DOMAIN made.groups :
                  made.groups[x].patent_id = r.patent_id
           paged == NewDict(made.heap, Page(r))
       IN Accumulate(
            [heap |-> [paged EXCEPT !.lists[made.groups[k].pages] =
                                       Append(@, Len(paged.dicts))],
             groups |-> made.groups],
            Tail(refs))

\* The pages at refs in the order of key=lambda x: x["image_index"] (line
\* 51): stable.
RECURSIVE SortedPages(_, _)
SortedPages(heap, refs) ==
  IF refs = << >> THEN << >>
  ELSE LET done == SortedPages(heap, SubSeq(refs, 1, Len(refs) - 1))
           p == refs[Len(refs)]
           n == Cardinality({k \in DOMAIN done :
                               heap.dicts[done[k]].image_index
                                 <= heap.dicts[p].image_index})
       IN SubSeq(done, 1, n) \o << p >> \o SubSeq(done, n + 1, Len(done))

\* max(p["score"] for p in pages)
MaxScore(pages) == SetMax({pages[k].score : k \in DOMAIN pages})

\* The loop of lines 49-58 from group k on: pages = sorted(...) is a new
\* list, the dict of the group a new dict that is appended to result_list,
\* the list at st.result.
RECURSIVE ResultList(_, _)
ResultList(st, k) ==
  IF k > Len(st.groups) THEN st
  ELSE LET g == st.groups[k]
           sorted == NewList(st.heap,
                             SortedPages(st.heap, st.heap.lists[g.pages]))
           pages == Len(sorted.lists)
           made == NewDict(sorted,
                           [patent_id |-> g.patent_id, pages |-> pages,
                            max_score |-> MaxScore(ListValue(sorted, pages))]
                             @@ g.metadata)
       IN ResultList(
            [st EXCEPT !.heap = [made EXCEPT !.lists[st.result] =
                                                Append(@, Len(made.dicts))]],
            k + 1)

\* A descending sort made of an ascending sort and a reversal: groups of
\* equal max_score come out in the reverse of their order.
RECURSIVE SortedGroupsReversed(_, _)
SortedGroupsReversed(heap, refs) ==
  IF refs = << >> THEN << >>
  ELSE LET done == SortedGroupsReversed(heap, SubSeq(refs, 1, Len(refs) - 1))
           g == refs[Len(refs)]
           n == Cardinality({k \in DOMAIN done :
                               heap.dicts[done[k]].max_score
                                 > heap.dicts[g].max_score})
       IN SubSeq(done, 1, n) \o << g >> \o SubSeq(done, n + 1, Len(done))

\* The groups at refs in the order of key=lambda x: x["max_score"],
\* reverse=True (line 60): stable, groups of equal max_score keep their
\* order.
RECURSIVE SortedGroups(_, _)
SortedGroups(heap, refs) ==
  IF refs = << >> THEN << >>
  ELSE LET done == SortedGroups(heap, SubSeq(refs, 1, Len(refs) - 1))
           g == refs[Len(refs)]
           n == Cardinality({k \in DOMAIN done :
                               heap.dicts[done[k]].max_score
                                 >= heap.dicts[g].max_score})
       IN SubSeq(done, 1, n) \o << g >> \o SubSeq(done, n + 1, Len(done))

\* group_by_patent of search_design called with the list at address
\* results, on the heap as it is and with what the call before it left in
\* its groups: the heap and the groups it ends with, and the address of the
\* list it returns. result_list.sort (line 60) sorts that list in place.
GroupByPatentAfter(heap, left, results) ==
  LET grouped == Accumulate([heap |-> heap, groups |-> NewGroups(left)],
                            heap.lists[results])
      listed == ResultList([heap |-> NewList(grouped.heap, << >>),
                            groups |-> grouped.groups,
                            result |-> Len(grouped.heap.lists) + 1], 1)
  IN [heap |-> [listed.heap EXCEPT !.lists[listed.result] =
                                      SortedGroups(listed.heap, @)],
      groups |-> listed.groups, result |-> listed.result]

\* group_by_patent(results) of search_design: what it returns for a list of
\* hits.
group_by_patent(results) ==
  LET r == GroupByPatentAfter(WithHits(NoHeap, results), << >>, 1)
  IN GroupsValue(r.heap, r.result)

(* ---------------------- group_by_patent (search_base) ------------------ *)

ThumbnailHead == << "/","a","p","i","/","i","m","a","g","e","/" >>

\* The page of a hit (lines 21-27).
PageBase(r) ==
  [id |-> r.id, file_name |-> r.file_name, page_num |-> r.page_num,
   score |-> r.score, thumbnail_url |-> ThumbnailHead \o r.file_name]

\* groups[r["patent_id"]] of a patent that has no group yet (the
\* defaultdict(list) of line 18): a new, empty list of pages.
WithGroupBase(st, patent_id) ==
  IF \E k \in DOMAIN st.groups : st.groups[k].patent_id = patent_id THEN st
  ELSE [heap |-> NewList(st.heap, << >>),
        groups |-> Append(st.groups,
                          [patent_id |-> patent_id,
                           pages |-> Len(st.heap.lists) + 1])]

\* The loop over the hits (lines 20-27): each hit is read and its page is a
\* new dict appended to the list of its group.
RECURSIVE AccumulateBase(_, _)
AccumulateBase(st, refs) ==
  IF refs = << >> THEN st
  ELSE LET r == st.heap.dicts[Head(refs)]
           made == WithGroupBase(st, r.patent_id)
           k == CHOOSE x \in DOMAIN made.groups :
                  made.groups[x].patent_id = r.patent_id
           paged == NewDict(made.heap, PageBase(r))
       IN AccumulateBase(
            [heap |-> [paged EXCEPT !.lists[made.groups[k].pages] =
                                       Append(@, Len(paged.dicts))],
             groups |-> made.groups],
            Tail(refs))

\* a < b for two texts of digits, as Python compares str: character by
\* character, a proper prefix before the longer text.
RECURSIVE TextLess(_, _)
TextLess(a, b) ==
  IF b = << >> THEN FALSE
  ELSE IF a = << >> THEN TRUE
  ELSE IF Head(a) = Head(b) THEN TextLess(Tail(a), Tail(b))
  ELSE (CHOOSE i \in DOMAIN Digits : Digits[i] = Head(a))
         < (CHOOSE i \in DOMAIN Digits : Digits[i] = Head(b))

\* The pages at refs in the order of key=lambda x: x["page_num"] (line 33):
\* stable; page_num is the text of a VARCHAR field and is compared as a
\* text.
RECURSIVE SortedPagesBase(_, _)
SortedPagesBase(heap, refs) ==
  IF refs = << >> THEN << >>
  ELSE LET done == SortedPagesBase(heap, SubSeq(refs, 1, Len(refs) - 1))
           p == refs[Len(refs)]
           n == Cardinality({k \in DOMAIN done :
                               ~TextLess(heap.dicts[p].page_num,
                                         heap.dicts[done[k]].page_num)})
       IN SubSeq(done, 1, n) \o << p >> \o SubSeq(done, n + 1, Len(done))

\* The loop of lines 30-39 from group k on: pages.sort (line 33) sorts the
\* list of the group in place, and the new dict of the group holds that
\* list.
RECURSIVE ResultListBase(_, _)
ResultListBase(st, k) ==
  IF k > Len(st.groups) THEN st
  ELSE LET g == st.groups[k]
           sorted == [st.heap EXCEPT !.lists[g.pages] =
                                        SortedPagesBase(st.heap, @)]
           made == NewDict(sorted,
                           [patent_id |-> g.patent_id, pages |-> g.pages,
                            max_score |->
                               MaxScore(ListValue(sorted, g.pages))])
       IN ResultListBase(
            [st EXCEPT !.heap = [made EXCEPT !.lists[st.result] =
                                                Append(@, Len(made.dicts))]],
            k + 1)

\* group_by_patent of search_base called with the list at address results:
\* as GroupByPatentAfter; the sort of line 42 is the sort of search_design.
GroupByPatentBaseAfter(heap, left, results) ==
  LET grouped == AccumulateBase([heap |-> heap, groups |-> NewGroups(left)],
                                heap.lists[results])
      listed == ResultListBase([heap |-> NewList(grouped.heap, << >>),
                                groups |-> grouped.groups,
                                result |-> Len(grouped.heap.lists) + 1], 1)
  IN [heap |-> [listed.heap EXCEPT !.lists[listed.result] =
                                      SortedGroups(listed.heap, @)],
      groups |-> listed.groups, result |-> listed.result]

\* group_by_patent(results) of search_base: what it returns for a list of
\* hits.
group_by_patent_base(results) ==
  LET r == GroupByPatentBaseAfter(WithHits(NoHeap, results), << >>, 1)
  IN GroupsValue(r.heap, r.result)

(* ----------------------- DesignPatentService.search -------------------- *)

\* A threshold test that lets every hit through.
PassesAlways(score, min_score) == TRUE

\* if hit.score >= min_score (line 102)
Passes(score, min_score) == score >= min_score

\* The dict MilvusBaseService.search makes of a hit (milvus_base_service.py
\* lines 172-179).
HitDictBase(hit) ==
  [id |-> hit.id, score |-> hit.score,
   file_name |-> hit.entity.file_name,
   patent_id |-> hit.entity.patent_id,
   page_num |-> hit.entity.page_num,
   file_path |-> hit.entity.file_path]

\* The dict search makes of a hit (lines 103-119).
HitDict(hit) ==
  [id |-> hit.id, score |-> hit.score,
   patent_id |-> hit.entity.patent_id,
   image_index |-> hit.entity.image_index,
   file_name |-> hit.entity.file_name,
   file_path |-> hit.entity.file_path,
   title |-> hit.entity.title,
   loc_class |-> hit.entity.loc_class,
   pub_date |-> hit.entity.pub_date,
   filing_date |-> hit.entity.filing_date,
   applicant_name |-> hit.entity.applicant_name,
   applicant_country |-> hit.entity.applicant_country,
   inventor_names |-> hit.entity.inventor_names,
   claim_text |-> hit.entity.claim_text,
   image_count |-> hit.entity.image_count]

\* filtered (lines 100-119): the hits that pass, in the store's order.
RECURSIVE Filtered(_, _)
Filtered(raw, min_score) ==
  IF raw = << >> THEN << >>
  ELSE (IF Passes(Head(raw).score, min_score)
          THEN << HitDict(Head(raw)) >> ELSE << >>)
         \o Filtered(Tail(raw), min_score)

\* filtered[:top_k] (line 121)
FirstK(filtered, top_k) ==
  SubSeq(filtered, 1, IF Len(filtered) < top_k THEN Len(filtered) ELSE top_k)

\* collection.search(...)[0]: the rows that satisfy expr, the most similar
\* first, at most `limit` of them. scores: the similarity of each stored
\* embedding to the query vector, in hundredths; newest_first: how the store
\* orders hits of equal score.
RawHits(rows, scores, expr, limit, newest_first) ==
  LET m == {k \in DOMAIN rows : Matches(rows[k], expr)}
      Sc(k) == scores[rows[k].embedding]
      Before(j, k) ==
        \/ Sc(j) > Sc(k)
        \/ Sc(j) = Sc(k) /\ (IF newest_first THEN j > k ELSE j < k)
      At(i) == CHOOSE k \in m : Cardinality({j \in m : Before(j, k)}) = i - 1
      n == IF Cardinality(m) < limit THEN Cardinality(m) ELSE limit
  IN [i \in 1..n |->
        [id |-> rows[At(i)].id, score |-> Sc(At(i)), entity |-> rows[At(i)]]]

(* ------------------------------- state --------------------------------- *)

VARIABLES
  cid,               \* which corpus lies under --data-dir
  has_collection,    \* utility.has_collection(COLLECTION_NAME)
  store,             \* the collection's rows, in insertion order
  next_id,           \* the next auto_id primary key
  objects,           \* the object names present in the MinIO bucket
  pc,                \* idle | keys | scan | done | killed | crashed
  append,            \* args.append
  last_id,           \* get_existing_keys: the cursor
  existing_keys,     \* get_existing_keys: existing, then main's set
  pidx,              \* the patent the generator yielded last (0: none yet)
  iidx,              \* images of that patent already processed
  patent_count, processed_images, success_count, fail_count, skip_count,
  batch_data, failed_records,
  ledger,            \* the failed_*.csv written at run end (None: no file)
  runs_left, faults_left,
  batch_ords,        \* history: the corpus position of each batch record
  failed_ords,       \* history: the corpus position of each ledger line
  h_appended,        \* history: positions appended to batch_data this run
  h_calls,           \* history: the insert_batch calls of this run
  h_count0,          \* history: rows in the store when the run began
  h_stored0,         \* history: every corpus image had a row at run start
  h_clean,           \* history: every file, upload, extraction, insert was fine
  h_keys_raised,     \* history: a page query of this run raised
  h_gc,              \* history: processed_images at each reclamation pass
  h_reports,         \* history: processed_images at each progress report
  h_mid,             \* history: interrupted inside an item or a flush
  h_only_append,     \* history: every run so far was started with --append
  t_in, t_max, t_out, \* one truncate_str call: arguments and result
  query,             \* one search request: arguments, what was sent to the
                     \* store, the raw hits and the results of search
  grouping,          \* the calls of group_by_patent: argument and result
  scanner,           \* one call of scan_design_patents: the directory it
                     \* reads, how far it is, what it holds and has logged
  uploads,           \* the calls of upload_image_to_minio made on its own
  flat,              \* one run of a flat-corpus uploader
  ruiguan,           \* one run of the flat-corpus import
  service,           \* batch_import_base_service: the fields the endpoints
                     \* read and write, and the imports it has launched
  api,               \* the replies of the batch endpoints, in order
  minio,             \* MinIOService: _client, and the connect calls made
  request            \* the batch-endpoint request being handled: where the
                     \* handler stands and the status its test found

locals == << pc, append, last_id, existing_keys, pidx, iidx, patent_count,
             processed_images, success_count, fail_count, skip_count,
             batch_data, failed_records, ledger >>
world == << cid, has_collection, store, next_id, objects >>
budget == << runs_left, faults_left >>
history == << batch_ords, failed_ords, h_appended, h_calls, h_count0,
              h_stored0, h_clean, h_keys_raised, h_gc, h_reports, h_mid,
              h_only_append >>
trunc == << t_in, t_max, t_out >>
searching == << query, grouping >>
endpoints == << service, api, minio, request >>
others == << scanner, uploads, flat, ruiguan, endpoints >>
vars == << world, locals, budget, history, trunc, searching, others >>

Corpus == Corpora[cid]

(* ----------------------------- insert_batch ---------------------------- *)

\* What one insert_batch call did: the store after it, its return value,
\* whether it raised to its caller, whether the batch call went through, and
\* the individual inserts it made (batch index, outcome) in order.
BatchDone(st, nid, batch) ==
  [store |-> st \o [k \in 1..Len(batch) |-> Row(batch[k], nid + k - 1)],
   next_id |-> nid + Len(batch),
   ok |-> TRUE, raised |-> FALSE, batch_ok |-> TRUE, singles |-> << >>]

\* The fallback loop with the per-record try/except left out: the first
\* rejected record ends the loop and the exception leaves insert_batch.
RECURSIVE InsertEachUnguarded(_, _, _, _)
InsertEachUnguarded(acc, batch, k, rejected) ==
  IF k > Len(batch) THEN acc
  ELSE IF k \in rejected
    THEN [acc EXCEPT !.raised = TRUE,
                     !.singles = Append(@, [i |-> k, ok |-> FALSE])]
    ELSE InsertEachUnguarded(
           [acc EXCEPT !.store = Append(@, Row(batch[k], acc.next_id)),
                       !.next_id = @ + 1,
                       !.success = @ + 1,
                       !.singles = Append(@, [i |-> k, ok |-> TRUE])],
           batch, k + 1, rejected)

\* The fallback loop that submits a rejected record a second time before it
\* goes on to the next one.
RECURSIVE InsertEachRetrying(_, _, _, _)
InsertEachRetrying(acc, batch, k, rejected) ==
  IF k > Len(batch) THEN acc
  ELSE IF k \in rejected
    THEN InsertEachRetrying(
           [acc EXCEPT !.singles = @ \o << [i |-> k, ok |-> FALSE],
                                           [i |-> k, ok |-> FALSE] >>],
           batch, k + 1, rejected)
    ELSE InsertEachRetrying(
           [acc EXCEPT !.store = Append(@, Row(batch[k], acc.next_id)),
                       !.next_id = @ + 1,
                       !.success = @ + 1,
                       !.singles = Append(@, [i |-> k, ok |-> TRUE])],
           batch, k + 1, rejected)

\* The fallback loop of insert_batch from record k on: every record gets its
\* own insert; a rejected one is logged and the loop goes on.
RECURSIVE InsertEach(_, _, _, _)
InsertEach(acc, batch, k, rejected) ==
  IF k > Len(batch) THEN acc
  ELSE IF k \in rejected
    THEN InsertEach(
           [acc EXCEPT !.singles = Append(@, [i |-> k, ok |-> FALSE])],
           batch, k + 1, rejected)
    ELSE InsertEach(
           [acc EXCEPT !.store = Append(@, Row(batch[k], acc.next_id)),
                       !.next_id = @ + 1,
                       !.success = @ + 1,
                       !.singles = Append(@, [i |-> k, ok |-> TRUE])],
           batch, k + 1, rejected)

\* insert_batch that reports success as soon as one record of the fallback
\* was taken.
InsertBatchAnyTaken(st, nid, batch, batch_raises, rejected) ==
  IF ~batch_raises THEN BatchDone(st, nid, batch)
  ELSE LET r == InsertEach([store |-> st, next_id |-> nid, success |-> 0,
                            raised |-> FALSE, singles |-> << >>],
                           batch, 1, rejected)
       IN [store |-> r.store, next_id |-> r.next_id,
           ok |-> (r.success > 0),
           raised |-> r.raised, batch_ok |-> FALSE, singles |-> r.singles]

\* insert_batch(collection, batch_data). batch_raises: collection.insert of
\* the whole batch raises; rejected: the batch indices whose individual
\* insert raises.
InsertBatch(st, nid, batch, batch_raises, rejected) ==
  IF ~batch_raises THEN BatchDone(st, nid, batch)
  ELSE LET r == InsertEach([store |-> st, next_id |-> nid, success |-> 0,
                            raised |-> FALSE, singles |-> << >>],
                           batch, 1, rejected)
       IN [store |-> r.store, next_id |-> r.next_id,
           ok |-> (r.success = Len(batch)),
           raised |-> r.raised, batch_ok |-> FALSE, singles |-> r.singles]

\* The lines main adds to failed_records when insert_batch returned False.
InsertFailedLines(batch) ==
  [k \in 1..Len(batch) |->
     << batch[k].patent_id, batch[k].file_name, "insert failed" >>]

(* ------------------------- upload_image_to_minio ----------------------- *)

\* minio_service.file_exists(object_name) (minio_service.py 152-161):
\* stat_object answers, or raises, and every exception is answered False.
\* stat_ok: stat_object does not raise for a reason other than a missing
\* object.
FileExists(objs, object_name, stat_ok) == stat_ok /\ object_name \in objs

\* upload_image_to_minio that hands back the URL of the object whether or
\* not upload_file stored it.
UploadImageUnverified(objs, pid, file, stat_ok, put_ok) ==
  LET object_name == ObjectName(pid, file)
  IN IF FileExists(objs, object_name, stat_ok)
       THEN [url |-> GetUrl(object_name), objects |-> objs, put |-> FALSE]
     ELSE IF put_ok
       THEN [url |-> GetUrl(object_name), objects |-> objs \cup {object_name},
             put |-> TRUE]
     ELSE [url |-> GetUrl(object_name), objects |-> objs, put |-> TRUE]

\* stat_ok: as for FileExists; put_ok: minio_service.upload_file succeeds (it
\* returns None otherwise); put: upload_file was called. An upload over an
\* object that is in the bucket writes the same object again.
UploadImage(objs, pid, file, stat_ok, put_ok) ==
  LET object_name == ObjectName(pid, file)
  IN IF FileExists(objs, object_name, stat_ok)
       THEN [url |-> GetUrl(object_name), objects |-> objs, put |-> FALSE]
     ELSE IF put_ok
       THEN [url |-> GetUrl(object_name), objects |-> objs \cup {object_name},
             put |-> TRUE]
     ELSE [url |-> None, objects |-> objs, put |-> TRUE]

(* -------------------------------- main --------------------------------- *)

\* An image has a row in the store: the row whose features were taken from
\* that file.
Stored(patent, file, st) ==
  \E k \in 1..Len(st) : st[k].embedding = Embedding(patent, file)

AllStored(st) ==
  \A p \in 1..Len(Corpus) : \A j \in 1..Len(Corpus[p].images) :
    Stored(Corpus[p], Corpus[p].images[j], st)

\* A start that takes the else branch whatever the option.
UsesExistingNever(ap, exists) == FALSE

\* if args.append and utility.has_collection(COLLECTION_NAME) (line 194):
\* the collection is used as it is; create_collection (line 201) drops it
\* when it exists (lines 73-75).
UsesExisting(ap, exists) == ap /\ exists

\* main up to the dedup scan (lines 186-226): the collection is reused only
\* in append mode when it exists, and dropped and created anew otherwise.
StartRun(ap) ==
  /\ pc \in {"idle", "done", "killed", "crashed"}
  /\ runs_left > 0
  /\ LET store0 == IF UsesExisting(ap, has_collection) THEN store ELSE << >>
     IN /\ store' = store0
        /\ h_count0' = Len(store0)
        /\ h_stored0' = AllStored(store0)
  /\ has_collection' = TRUE
  /\ runs_left' = runs_left - 1
  /\ append' = ap
  /\ pc' = IF ap THEN "keys" ELSE "scan"
  /\ last_id' = -1
  /\ existing_keys' = {}
  /\ pidx' = 0 /\ iidx' = 0
  /\ patent_count' = 0 /\ processed_images' = 0
  /\ success_count' = 0 /\ fail_count' = 0 /\ skip_count' = 0
  /\ batch_data' = << >> /\ failed_records' = << >>
  /\ ledger' = [written |-> FALSE, lines |-> << >>]
  /\ batch_ords' = << >> /\ failed_ords' = << >>
  /\ h_appended' = << >> /\ h_calls' = << >>
  /\ h_clean' = TRUE /\ h_keys_raised' = FALSE
  /\ h_gc' = << >> /\ h_reports' = << >> /\ h_mid' = FALSE
  /\ h_only_append' = (h_only_append /\ ap)
  /\ UNCHANGED << cid, next_id, objects, faults_left, trunc, searching, others >>

\* The rows a page query `id > last_id` limit QUERY_LIMIT may return: all
\* the matching rows when they fit, and otherwise QUERY_LIMIT of them (the
\* matching rows but a run of consecutive ones that starts after `omit`).
Matching(st, cursor) == {k \in 1..Len(st) : st[k].id > cursor}

PageOf(st, cursor, omit) ==
  LET m == Matching(st, cursor)
      n == Cardinality(m)
      first == Len(st) - n + 1
  IN IF n <= QUERY_LIMIT THEN m
     ELSE m \ (first + omit .. first + omit + (n - QUERY_LIMIT) - 1)

\* Where the run of rows that a full page leaves out may start.
OmitStarts == {k \in 0..QUERY_LIMIT : k % OmitStep = 0}

\* A cursor that is put back to its first value after every page.
NextCursorReset(st, page) == -1

\* last_id = max(r['id'] for r in results)
NextCursor(st, page) == SetMax({st[k].id : k \in page})

\* existing.add(f"{r['patent_id']}_{r['file_name']}") for the rows of a page
PageKeys(st, page) ==
  {DedupKey(st[k].patent_id, st[k].file_name) : k \in page}

\* One turn of the loop of get_existing_keys (lines 139-149), or its except
\* branch (lines 151-152) when the query raises.
KeysPage ==
  /\ pc = "keys"
  /\ \E raises \in BOOLEAN,
        omit \in (IF Cardinality(Matching(store, last_id)) > QUERY_LIMIT
                    THEN OmitStarts ELSE {0}) :
       /\ raises => faults_left > 0 /\ omit = 0
       /\ LET page == PageOf(store, last_id, omit)
          IN IF raises
               THEN /\ pc' = "scan"
                    /\ UNCHANGED << last_id, existing_keys >>
             ELSE IF page = {}
               THEN /\ pc' = "scan"
                    /\ UNCHANGED << last_id, existing_keys >>
             ELSE /\ pc' = "keys"
                  /\ existing_keys' = existing_keys \cup PageKeys(store, page)
                  /\ last_id' = NextCursor(store, page)
       /\ faults_left' = IF raises THEN faults_left - 1 ELSE faults_left
       /\ h_keys_raised' = (h_keys_raised \/ raises)
  /\ UNCHANGED << world, append, pidx, iidx, patent_count, processed_images,
                  success_count, fail_count, skip_count, batch_data,
                  failed_records, ledger, runs_left, batch_ords, failed_ords,
                  h_appended, h_calls, h_count0, h_stored0, h_clean, h_gc,
                  h_reports, h_mid, h_only_append, trunc, searching, others >>

AtPatentEnd == IF pidx = 0 THEN TRUE ELSE iidx = Len(Corpus[pidx].images)

\* The progress lines after a patent's images (lines 307-312); image_times
\* holds one entry per image that was appended.
Reports(reports, successes, processed) ==
  IF successes > 0 /\ processed % PROGRESS_INTERVAL = 0
    THEN Append(reports, processed) ELSE reports

\* The generator yields the next patent (lines 229-231); a patent without
\* images goes straight to the progress lines.
NextPatent ==
  /\ pc = "scan"
  /\ AtPatentEnd
  /\ pidx < Len(Corpus)
  /\ pidx' = pidx + 1
  /\ iidx' = 0
  /\ patent_count' = patent_count + 1
  /\ h_reports' = IF Len(Corpus[pidx + 1].images) = 0
                    THEN Reports(h_reports, success_count, processed_images)
                    ELSE h_reports
  /\ UNCHANGED << world, pc, append, last_id, existing_keys, processed_images,
                  success_count, fail_count, skip_count, batch_data,
                  failed_records, ledger, budget, batch_ords, failed_ords,
                  h_appended, h_calls, h_count0, h_stored0, h_clean,
                  h_keys_raised, h_gc, h_mid, h_only_append, trunc, searching, others >>

CurPatent == Corpus[pidx]
ImgFile == CurPatent.images[iidx + 1]
Ord == processed_images + 1
\* The dedup test with its sense inverted.
SkippedUnlessKnown ==
  DedupKey(CurPatent.patent_id, ImgFile) \notin existing_keys

\* if dedup_key in existing_keys (line 239); existing_keys is empty unless
\* the run is in append mode.
Skipped == DedupKey(CurPatent.patent_id, ImgFile) \in existing_keys
\* int(time.time()): a clock that advances from run to run.
Now == MaxRuns - runs_left

\* The batch indices whose individual insert the store may reject, for the
\* batch as it stands once the current image is appended.
SuspectIdx ==
  {k \in 1..Len(batch_data) : Suspect(batch_data[k].image_index)}
    \cup (IF Suspect(iidx) THEN {Len(batch_data) + 1} ELSE {})

\* The capacity flush that leaves the batch as it is.
AfterFlushKept(batch) == batch

\* batch_data = [] after the capacity flush (line 295).
AfterFlush(batch) == << >>

\* if len(batch_data) >= INSERT_BATCH_SIZE (line 290)
FlushDue(batch) == Len(batch) >= INSERT_BATCH_SIZE

\* A failed item that is counted and leaves no line in failed_records.
FailedCountedOnly(s, reason) ==
  [s EXCEPT !.fail_count = @ + 1, !.failed_ords = Append(@, Ord)]

\* fail_count += 1; failed_records.append(...) for the current image (lines
\* 248-249, 257-258, 304-305).
Failed(s, reason) ==
  [s EXCEPT !.fail_count = @ + 1,
            !.failed_records =
               Append(@, << CurPatent.patent_id, ImgFile, reason >>),
            !.failed_ords = Append(@, Ord)]

\* The body of the image loop (lines 234-305) for the current image, as the
\* values it leaves. fault: what the environment does to this image (none,
\* missing: no local file, upload: upload_file returns None, extract: the
\* extractor raises); stat_ok: as for FileExists; batch_raises, rejected: as
\* for InsertBatch; gc_raises: the reclamation pass raises.
ProcessOne(fault, stat_ok, batch_raises, rejected, gc_raises) ==
  LET base == [skip_count |-> skip_count, fail_count |-> fail_count,
               success_count |-> success_count, batch_data |-> batch_data,
               batch_ords |-> batch_ords, failed_records |-> failed_records,
               failed_ords |-> failed_ords, objects |-> objects,
               store |-> store, next_id |-> next_id,
               h_appended |-> h_appended, h_calls |-> h_calls, h_gc |-> h_gc]
      Reclaim(s) ==
        IF Ord % GC_INTERVAL = 0
          THEN LET begun == [s EXCEPT !.h_gc = Append(@, Ord)]
               IN IF gc_raises THEN Failed(begun, "error") ELSE begun
          ELSE s
      up == UploadImage(objects, CurPatent.patent_id, ImgFile, stat_ok,
                        fault # "upload")
      rec == MakeRecord(CurPatent, iidx, ImgFile, up.url, Now)
      s1 == [base EXCEPT !.objects = up.objects,
                         !.batch_data = Append(@, rec),
                         !.batch_ords = Append(@, Ord),
                         !.h_appended = Append(@, Ord),
                         !.success_count = @ + 1]
      res == InsertBatch(store, next_id, s1.batch_data, batch_raises, rejected)
      s2 == [s1 EXCEPT !.store = res.store,
                       !.next_id = res.next_id,
                       !.h_calls = Append(@, [ords |-> s1.batch_ords,
                                              batch_ok |-> res.batch_ok,
                                              singles |-> res.singles,
                                              ok |-> res.ok,
                                              raised |-> res.raised,
                                              killed |-> FALSE])]
      s3 == [s2 EXCEPT !.failed_records =
                          IF res.ok THEN @ ELSE @ \o InsertFailedLines(s1.batch_data),
                       !.failed_ords = IF res.ok THEN @ ELSE @ \o s1.batch_ords,
                       !.batch_data = AfterFlush(@),
                       !.batch_ords = AfterFlush(@)]
  IN IF Skipped THEN [base EXCEPT !.skip_count = @ + 1]
     ELSE IF fault = "missing" THEN Failed(base, "missing file")
     ELSE IF up.url = None THEN Failed(base, "upload failed")
     ELSE IF fault = "extract"
       THEN Failed([base EXCEPT !.objects = up.objects], "error")
     ELSE IF FlushDue(s1.batch_data)
       THEN IF res.raised THEN Failed(s2, "error") ELSE Reclaim(s3)
     ELSE Reclaim(s1)

ProcessImage ==
  /\ pc = "scan"
  /\ pidx > 0
  /\ iidx < Len(CurPatent.images)
  /\ \E fault \in {"none", "missing", "upload", "extract"},
        stat_ok \in BOOLEAN,
        batch_raises \in BOOLEAN, rejected \in SUBSET SuspectIdx,
        gc_raises \in BOOLEAN :
       LET appends == ~Skipped /\ fault = "none"
           object_name == ObjectName(CurPatent.patent_id, ImgFile)
           \* stat_object and fput_object failing on one image are one
           \* failure of the object store.
           cost == (IF fault # "none" \/ ~stat_ok THEN 1 ELSE 0)
                     + (IF batch_raises THEN 1 ELSE 0)
                     + (IF gc_raises THEN 1 ELSE 0)
           r == ProcessOne(fault, stat_ok, batch_raises, rejected, gc_raises)
       IN /\ cost <= faults_left
          /\ fault # "none" => ~Skipped /\ Flaky(iidx)
          \* stat_object is reached by an image that is not skipped and has
          \* its file, and its failure shows only when the object is there.
          /\ ~stat_ok => /\ ~Skipped /\ Flaky(iidx)
                         /\ fault \in {"none", "upload"}
                         /\ object_name \in objects
          \* upload_file is reached only when file_exists answered False.
          /\ fault = "upload" => ~FileExists(objects, object_name, stat_ok)
          /\ batch_raises =>
               appends /\ Len(batch_data) + 1 >= INSERT_BATCH_SIZE
          /\ rejected # {} => batch_raises
          /\ gc_raises => appends /\ Ord % GC_INTERVAL = 0
          /\ skip_count' = r.skip_count
          /\ fail_count' = r.fail_count
          /\ success_count' = r.success_count
          /\ batch_data' = r.batch_data
          /\ batch_ords' = r.batch_ords
          /\ failed_records' = r.failed_records
          /\ failed_ords' = r.failed_ords
          /\ objects' = r.objects
          /\ store' = r.store
          /\ next_id' = r.next_id
          /\ h_appended' = r.h_appended
          /\ h_calls' = r.h_calls
          /\ h_gc' = r.h_gc
          /\ faults_left' = faults_left - cost
          /\ h_clean' = (h_clean /\ cost = 0)
          /\ h_reports' = IF iidx + 1 = Len(CurPatent.images)
                            THEN Reports(h_reports, r.success_count, Ord)
                            ELSE h_reports
  /\ processed_images' = Ord
  /\ iidx' = iidx + 1
  /\ UNCHANGED << cid, has_collection, pc, append, last_id, existing_keys,
                  pidx, patent_count, ledger, runs_left, h_count0, h_stored0,
                  h_keys_raised, h_mid, h_only_append, trunc, searching, others >>

\* The end of main that skips the flush of the remaining records.
FinalFlushDueNever(batch) == FALSE

\* if batch_data (line 315)
FinalFlushDue(batch) == batch # << >>

\* main after the loop (lines 314-341): the remaining records are flushed,
\* the ledger file is written when failed_records is not empty.
Finish ==
  /\ pc = "scan"
  /\ AtPatentEnd
  /\ pidx = Len(Corpus)
  /\ \E batch_raises \in BOOLEAN,
        rejected \in SUBSET {k \in 1..Len(batch_data) :
                               Suspect(batch_data[k].image_index)} :
       LET cost == IF batch_raises THEN 1 ELSE 0
           res == InsertBatch(store, next_id, batch_data, batch_raises, rejected)
       IN /\ cost <= faults_left
          /\ batch_raises => batch_data # << >>
          /\ rejected # {} => batch_raises
          /\ faults_left' = faults_left - cost
          /\ h_clean' = (h_clean /\ cost = 0)
          /\ IF FinalFlushDue(batch_data)
               THEN /\ store' = res.store
                    /\ next_id' = res.next_id
                    /\ h_calls' = Append(h_calls, [ords |-> batch_ords,
                                                   batch_ok |-> res.batch_ok,
                                                   singles |-> res.singles,
                                                   ok |-> res.ok,
                                                   raised |-> res.raised,
                                                   killed |-> FALSE])
                    /\ IF res.raised
                         THEN /\ pc' = "crashed"
                              /\ UNCHANGED << failed_records, failed_ords, ledger >>
                         ELSE /\ pc' = "done"
                              /\ failed_records' =
                                   IF res.ok THEN failed_records
                                   ELSE failed_records \o InsertFailedLines(batch_data)
                              /\ failed_ords' =
                                   IF res.ok THEN failed_ords
                                   ELSE failed_ords \o batch_ords
                              /\ ledger' = [written |-> failed_records' # << >>,
                                            lines |-> failed_records']
               ELSE /\ pc' = "done"
                    /\ ledger' = [written |-> failed_records # << >>,
                                  lines |-> failed_records]
                    /\ UNCHANGED << store, next_id, h_calls, failed_records,
                                    failed_ords >>
  /\ UNCHANGED << cid, has_collection, objects, append, last_id, existing_keys,
                  pidx, iidx, patent_count, processed_images, success_count,
                  fail_count, skip_count, batch_data, runs_left, batch_ords,
                  h_appended, h_count0, h_stored0, h_keys_raised, h_gc,
                  h_reports, h_mid, h_only_append, trunc, searching, others >>

\* The generator of line 214 raises when the loop of line 229 asks it for
\* the first patent of a root that does not exist: main has no handler
\* around the loop and ends with the traceback, after lines 186-226 did
\* what StartRun and KeysPage say.
ScanRaises ==
  /\ pc = "scan"
  /\ ~RootExists(cid)
  /\ pidx = 0
  /\ pc' = "crashed"
  /\ UNCHANGED << world, append, last_id, existing_keys, pidx, iidx,
                  patent_count, processed_images, success_count, fail_count,
                  skip_count, batch_data, failed_records, ledger, budget,
                  batch_ords, failed_ords, h_appended, h_calls, h_count0,
                  h_stored0, h_clean, h_keys_raised, h_gc, h_reports, h_mid,
                  h_only_append, trunc, searching, others >>

\* Ctrl-C (KeyboardInterrupt) while main runs: `except Exception` (lines 151,
\* 302, 370, 385) does not catch it and main has no handler, so the process
\* ends where it stands, with what the statements before that point did.
\* at: where the interrupt arrives.
\*   setup, dropped: in lines 186-226 of a run that starts, before
\*     create_collection did anything, or after it dropped the collection
\*     (line 75) and before it made the new one (line 77);
\*   between: between two turns of the key scan or of the loops;
\*   keys: in the loop of line 148, n keys of the page added, last_id as it
\*     was (line 149 not done);
\*   begun: in an image after processed_images += 1 (line 235);
\*   uploaded: after its upload (line 254);
\*   appended: after batch_data.append (line 265), before success_count += 1;
\*   counted: after success_count += 1 (line 286), nothing flushed yet;
\*   flush: inside insert_batch, in the capacity flush of the image or in the
\*     final flush, after the batch call took every record, or after it
\*     raised and n individual inserts were tried;
\*   storing: inside the individual insert of record n + 1 (line 383), after
\*     the store took the record and before success += 1 (line 384);
\*   returned: after insert_batch returned (lines 291, 316) and n of the
\*     'insert failed' lines were appended, before batch_data = [];
\*   cleared: after batch_data = [] (line 295), before the test of line
\*     298;
\*   gc: inside clear_gpu_memory (line 299);
\*   failing: after fail_count += 1 (lines 248, 257, 304), before the line
\*     is appended to failed_records;
\*   item: at the end of the body of the loop, before the progress lines;
\*   opened, written: after the final flush, the ledger file opened and
\*     empty (line 325), or main at its last lines (326-341).
\* fault, stat_ok, batch_raises, rejected, gc_raises: as for ProcessOne,
\* whose steps these are.
Interrupt ==
  /\ \E at \in {"setup", "dropped", "between", "keys", "begun", "uploaded",
                "appended", "counted", "flush", "storing", "returned",
                "cleared", "gc", "failing", "item", "opened", "written"} :
       IF at \in {"setup", "dropped"}
         THEN /\ pc \in {"idle", "done", "killed", "crashed"}
              /\ runs_left > 0
              /\ \E ap \in BOOLEAN :
                   /\ at = "dropped" =>
                        has_collection /\ ~UsesExisting(ap, has_collection)
                   /\ append' = ap
                   /\ h_only_append' = (h_only_append /\ ap)
              /\ has_collection' = (has_collection /\ at # "dropped")
              /\ store' = IF at = "dropped" THEN << >> ELSE store
              /\ h_count0' = Len(store')
              /\ h_stored0' = AllStored(store')
              /\ runs_left' = runs_left - 1
              /\ last_id' = -1
              /\ existing_keys' = {}
              /\ pidx' = 0 /\ iidx' = 0
              /\ patent_count' = 0 /\ processed_images' = 0
              /\ success_count' = 0 /\ fail_count' = 0 /\ skip_count' = 0
              /\ batch_data' = << >> /\ failed_records' = << >>
              /\ ledger' = [written |-> FALSE, lines |-> << >>]
              /\ batch_ords' = << >> /\ failed_ords' = << >>
              /\ h_appended' = << >> /\ h_calls' = << >>
              /\ h_clean' = TRUE /\ h_keys_raised' = FALSE
              /\ h_gc' = << >> /\ h_reports' = << >> /\ h_mid' = FALSE
              /\ UNCHANGED << next_id, objects, faults_left >>
         ELSE
           /\ pc \in {"keys", "scan"}
           /\ \E fault \in (IF at \in {"failing", "item"}
                              THEN {"none", "missing", "upload", "extract"}
                              ELSE {"none"}),
                 stat_ok \in (IF at \in {"failing", "item"}
                                THEN BOOLEAN ELSE {TRUE}),
                 gc_raises \in (IF at \in {"failing", "item"}
                                  THEN BOOLEAN ELSE {FALSE}),
                 batch_raises \in (IF at \in {"flush", "storing", "returned",
                                              "cleared", "gc", "failing",
                                              "item", "opened", "written"}
                                     THEN BOOLEAN ELSE {FALSE}) :
               \E rejected \in SUBSET SuspectIdx,
                  n \in (IF at = "keys" THEN 1..Len(store)
                         ELSE IF at \in {"flush", "storing", "returned"}
                           THEN 0..Len(batch_data) + 1
                         ELSE {0}) :
                 LET in_item == /\ pc = "scan" /\ pidx > 0
                                /\ iidx < Len(Corpus[pidx].images)
                     at_end == pc = "scan" /\ AtPatentEnd /\ pidx = Len(Corpus)
                     held == [skip_count |-> skip_count,
                              fail_count |-> fail_count,
                              success_count |-> success_count,
                              batch_data |-> batch_data,
                              batch_ords |-> batch_ords,
                              failed_records |-> failed_records,
                              failed_ords |-> failed_ords,
                              objects |-> objects,
                              store |-> store, next_id |-> next_id,
                              h_appended |-> h_appended,
                              h_calls |-> h_calls, h_gc |-> h_gc]
                     object_name == ObjectName(CurPatent.patent_id, ImgFile)
                     up == UploadImage(objects, CurPatent.patent_id, ImgFile,
                                       stat_ok, fault # "upload")
                     appends == in_item /\ ~Skipped /\ fault = "none"
                     cost == (IF fault # "none" \/ ~stat_ok THEN 1 ELSE 0)
                               + (IF batch_raises THEN 1 ELSE 0)
                               + (IF gc_raises THEN 1 ELSE 0)
                     \* the guards of ProcessImage
                     feasible ==
                       /\ in_item
                       /\ fault # "none" => ~Skipped /\ Flaky(iidx)
                       /\ ~stat_ok => /\ ~Skipped /\ Flaky(iidx)
                                      /\ fault \in {"none", "upload"}
                                      /\ object_name \in objects
                       /\ fault = "upload" =>
                            ~FileExists(objects, object_name, stat_ok)
                       /\ gc_raises => appends /\ Ord % GC_INTERVAL = 0
                     reason == CASE fault = "missing" -> "missing file"
                                 [] fault = "upload" -> "upload failed"
                                 [] OTHER -> "error"
                     \* where in main the point is
                     placed ==
                       CASE at = "between" -> TRUE
                         [] at = "keys" -> pc = "keys"
                         [] at = "begun" -> in_item
                         [] at \in {"uploaded", "appended", "counted"} ->
                              in_item /\ ~Skipped
                         [] at \in {"flush", "storing", "returned"} ->
                              IF in_item THEN ~Skipped ELSE at_end
                         [] at = "cleared" -> in_item /\ ~Skipped
                         [] at = "gc" -> appends /\ Ord % GC_INTERVAL = 0
                         [] at = "failing" ->
                              feasible /\ (fault # "none" \/ gc_raises)
                         [] at = "item" -> feasible
                         [] at \in {"opened", "written"} -> at_end
                 IN
                 /\ placed
                 /\ cost <= faults_left
                 /\ rejected # {} => batch_raises
                 \* u: after the upload; a1: after batch_data.append; s1:
                 \* after success_count += 1, what insert_batch is called
                 \* with (outside an image: the values as they stand)
                 /\ \E u \in {IF in_item THEN [held EXCEPT !.objects = up.objects]
                                         ELSE held} :
                    \E a1 \in {IF in_item
                                 THEN [u EXCEPT
                                         !.batch_data =
                                            Append(@, MakeRecord(CurPatent, iidx,
                                                                 ImgFile, up.url,
                                                                 Now)),
                                         !.batch_ords = Append(@, Ord),
                                         !.h_appended = Append(@, Ord)]
                                 ELSE held} :
                    \E s1 \in {IF in_item THEN [a1 EXCEPT !.success_count = @ + 1]
                                          ELSE held} :
                    \* res: the whole insert_batch call; part: the call cut
                    \* after n records
                    \E res \in {InsertBatch(store, next_id, s1.batch_data,
                                            batch_raises, rejected)},
                       part \in {InsertBatch(store, next_id,
                                             SubSeq(s1.batch_data, 1,
                                                    IF n <= Len(s1.batch_data)
                                                      THEN n ELSE 0),
                                             batch_raises, rejected)} :
                    LET flushes == IF in_item
                                     THEN appends /\ FlushDue(s1.batch_data)
                                     ELSE at_end /\ FinalFlushDue(batch_data)
                        Call(r, cut) ==
                          [ords |-> s1.batch_ords, batch_ok |-> r.batch_ok,
                           singles |-> r.singles, ok |-> r.ok /\ ~cut,
                           raised |-> r.raised, killed |-> cut]
                        in_call == [s1 EXCEPT !.store = part.store,
                                              !.next_id = part.next_id,
                                              !.h_calls =
                                                 Append(@, Call(part, TRUE))]
                        \* the individual insert of record n + 1 is cut
                        \* after the store took the record
                        storing ==
                          [in_call EXCEPT
                             !.store =
                                IF n < Len(s1.batch_data)
                                  THEN Append(@, Row(s1.batch_data[n + 1],
                                                     part.next_id))
                                  ELSE @,
                             !.next_id = @ + 1]
                        all_lines == IF res.ok THEN 0 ELSE Len(s1.batch_data)
                        Returned(m) ==
                          [s1 EXCEPT
                             !.store = res.store,
                             !.next_id = res.next_id,
                             !.h_calls = Append(@, Call(res, FALSE)),
                             !.failed_records =
                                @ \o SubSeq(InsertFailedLines(s1.batch_data), 1, m),
                             !.failed_ords = @ \o SubSeq(s1.batch_ords, 1, m)]
                    IN
                    \* flushed: main after the final flush; body: the body of
                    \* the loop after the capacity flush
                    \E flushed \in {IF flushes THEN Returned(all_lines) ELSE held} :
                    \E body \in {IF flushes
                                   THEN [flushed EXCEPT
                                           !.batch_data = AfterFlush(@),
                                           !.batch_ords = AfterFlush(@)]
                                   ELSE s1} :
                    \E in_gc \in {[body EXCEPT !.h_gc = Append(@, Ord)]} :
                    \E k \in {CASE at \in {"between", "keys", "begun"} -> held
                                [] at = "uploaded" -> u
                                [] at = "appended" -> a1
                                [] at = "counted" -> s1
                                [] at = "flush" -> in_call
                                [] at = "storing" -> storing
                                [] at = "cleared" -> body
                                [] at = "returned" ->
                                     Returned(IF n <= all_lines THEN n ELSE 0)
                                [] at = "gc" -> in_gc
                                [] at = "failing" ->
                                     [(IF gc_raises THEN in_gc
                                       ELSE IF fault = "extract" THEN u
                                       ELSE held)
                                        EXCEPT !.fail_count = @ + 1]
                                [] at = "item" ->
                                     IF ~in_item THEN held
                                     ELSE IF Skipped
                                       THEN [held EXCEPT !.skip_count = @ + 1]
                                     ELSE IF gc_raises THEN Failed(in_gc, reason)
                                     ELSE IF fault = "extract"
                                       THEN Failed(u, reason)
                                     ELSE IF fault # "none"
                                       THEN Failed(held, reason)
                                     ELSE IF Ord % GC_INTERVAL = 0 THEN in_gc
                                     ELSE body
                                [] at \in {"opened", "written"} -> flushed} :
                       /\ batch_raises => flushes
                       /\ rejected \subseteq 1..Len(s1.batch_data)
                       /\ at = "flush" =>
                            /\ flushes
                            /\ n <= Len(s1.batch_data)
                            /\ ~batch_raises => n = Len(s1.batch_data)
                            /\ rejected \subseteq 1..n
                       /\ at = "storing" =>
                            /\ flushes /\ batch_raises
                            /\ n < Len(s1.batch_data)
                            /\ rejected \subseteq 1..n
                       /\ at = "returned" => flushes /\ n <= all_lines
                       /\ at = "cleared" => flushes
                       /\ at = "opened" => flushed.failed_records # << >>
                       /\ \E omit \in (IF /\ at = "keys"
                                          /\ Cardinality(Matching(store, last_id))
                                               > QUERY_LIMIT
                                         THEN OmitStarts ELSE {0}) :
                            LET page == PageOf(store, last_id, omit)
                                added == {r \in page :
                                            Cardinality({j \in page : j <= r}) <= n}
                            IN /\ at = "keys" => n <= Cardinality(page)
                               /\ existing_keys' =
                                    IF at = "keys"
                                      THEN existing_keys \cup PageKeys(store, added)
                                      ELSE existing_keys
                       /\ h_mid' = \/ in_item /\ at # "between"
                                   \/ at \in {"flush", "storing"}
                       /\ faults_left' = faults_left - cost
                       /\ h_clean' = (h_clean /\ cost = 0)
                       /\ processed_images' = IF in_item /\ at # "between"
                                                THEN Ord ELSE processed_images
                       /\ skip_count' = k.skip_count
                       /\ fail_count' = k.fail_count
                       /\ success_count' = k.success_count
                       /\ batch_data' = k.batch_data
                       /\ batch_ords' = k.batch_ords
                       /\ failed_records' = k.failed_records
                       /\ failed_ords' = k.failed_ords
                       /\ objects' = k.objects
                       /\ store' = k.store
                       /\ next_id' = k.next_id
                       /\ h_appended' = k.h_appended
                       /\ h_calls' = k.h_calls
                       /\ h_gc' = k.h_gc
                       /\ ledger' =
                            CASE at = "opened" -> [written |-> TRUE, lines |-> << >>]
                              [] at = "written" ->
                                   [written |-> k.failed_records # << >>,
                                    lines |-> k.failed_records]
                              [] OTHER -> ledger
           /\ UNCHANGED << has_collection, append, last_id, pidx, iidx,
                           patent_count, runs_left, h_count0, h_stored0,
                           h_keys_raised, h_reports, h_only_append >>
  /\ pc' = "killed"
  /\ UNCHANGED << cid, trunc, searching, others >>

(* ------------------------- truncate_str on its own --------------------- *)

Texts(n) == UNION {[1..k -> {"a", "b"}] : k \in 0..n}

TruncInputs == {None} \cup Texts(MaxStrLen)

\* truncate_str called on its own, while main is not running.
TruncateCall ==
  /\ pc = "idle"
  /\ \E s \in TruncInputs, m \in 0..MaxLenArg :
       /\ t_in' = s
       /\ t_max' = m
       /\ t_out' = truncate_str(s, m)
  /\ UNCHANGED << world, locals, budget, history, searching, others >>

(* ------------------------------- searching ----------------------------- *)

\* No response yet.
NoReply == [code |-> -1, message |-> None, data |-> None]

NoQuery ==
  [pc |-> "idle", top_k |-> 0, min_score |-> 0, keyword |-> None,
   loc_class |-> None, applicant |-> None, scores |-> << >>,
   expr |-> None, limit |-> 0, raw |-> << >>, results |-> << >>,
   raised |-> None, reply |-> NoReply]

\* Before any call of group_by_patent: nothing on the heap.
NoGrouping ==
  [heap |-> NoHeap, left |-> << >>, left_base |-> << >>, calls |-> << >>]

\* Similarities and thresholds, in hundredths.
Scores == {80, 90, 95}
MinScores == {85, 90}
TopKs == 1..MaxTopK
Keywords == {None, << >>, << "a" >>}
LocClasses == {None, << "0","1" >>}
Applicants == {None, << "c" >>}

\* DesignPatentService.search (lines 75-121) for one request, with what the
\* store answers.
Search ==
  /\ query.pc = "idle"
  /\ has_collection
  /\ \E top_k \in TopKs, min_score \in MinScores, keyword \in Keywords,
        loc_class \in LocClasses, applicant \in Applicants,
        scores \in [{store[k].embedding : k \in DOMAIN store} -> Scores],
        newest_first \in BOOLEAN :
       LET expr == FilterExpr(Filters(keyword, loc_class, applicant))
           limit == SearchLimit(top_k)
           raw == RawHits(store, scores, expr, limit, newest_first)
       IN query' = [pc |-> "searched", top_k |-> top_k,
                    min_score |-> min_score, keyword |-> keyword,
                    loc_class |-> loc_class, applicant |-> applicant,
                    scores |-> scores, expr |-> expr, limit |-> limit, raw |-> raw,
                    results |-> FirstK(Filtered(raw, min_score), top_k),
                    raised |-> None, reply |-> NoReply]
  /\ UNCHANGED << world, locals, budget, history, trunc, grouping, others >>

\* One call of group_by_patent of search_design with the list at address a
\* and one call of group_by_patent of search_base with the list at address
\* b, on heap h, each after what its call before left. arg: what the list
\* held when the call was made; out: what the caller finds in the list that
\* was returned; after: what the caller finds in its own list once both
\* calls have returned.
GroupHits(h, a, b) ==
  LET r == GroupByPatentAfter(h, grouping.left, a)
      rb == GroupByPatentBaseAfter(r.heap, grouping.left_base, b)
  IN grouping' =
       [heap |-> rb.heap, left |-> r.groups, left_base |-> rb.groups,
        calls |-> Append(grouping.calls,
                         [ref |-> a, arg |-> ListValue(h, a),
                          after |-> ListValue(rb.heap, a),
                          out |-> GroupsValue(r.heap, r.result),
                          ref_base |-> b, arg_base |-> ListValue(h, b),
                          after_base |-> ListValue(rb.heap, b),
                          out_base |-> GroupsValue(rb.heap, rb.result)])]

\* The heap with two more lists of hits, and the addresses of the two.
HitsPlaced(heap, hits, hits_base) ==
  [heap |-> WithHits(WithHits(heap, hits), hits_base),
   a |-> Len(heap.lists) + 1, b |-> Len(heap.lists) + 2]

\* search_design_patents groups the results of the search (line 107).
GroupResults ==
  /\ query.pc = "searched"
  /\ query' = [query EXCEPT !.pc = "grouped"]
  /\ LET placed == HitsPlaced(grouping.heap, query.results, << >>)
     IN GroupHits(placed.heap, placed.a, placed.b)
  /\ UNCHANGED << world, locals, budget, history, trunc, others >>

\* The texts str(e) of the exceptions the steps of a request may raise; an
\* exception made without arguments has the empty text.
ExcTexts == {<< >>, << "e" >>}

\* The envelope of a failure with the success code.
ErrorEnvelopeCodeZero(text) == [code |-> 0, message |-> text, data |-> None]

\* except Exception as e: return {"code": 1, "message": str(e), "data": None}
\* (search_design.py lines 133-136, search_base.py lines 103-109).
ErrorEnvelope(text) == [code |-> 1, message |-> text, data |-> None]

\* The envelope of a search that went through (lines 111-132).
SuccessEnvelope(grouped, results) ==
  [code |-> 0, message |-> << "s","u","c","c","e","s","s" >>,
   data |-> [results |-> grouped, total_matched |-> Len(results)]]

\* str(e) of the RuntimeError of get_collection (design_patent_service.py
\* lines 45-53): f"Collection '{COLLECTION_NAME}' not found".
NotFoundText ==
  << "C","o","l","l","e","c","t","i","o","n"," ","'" >>
    \o << "d","e","s","i","g","n","_","p","a","t","e","n","t","s","_",
          "f","u","l","l" >>
    \o << "'"," ","n","o","t"," ","f","o","u","n","d" >>

\* What the steps up to the search may raise: Image.open, extract_from_pil
\* and the search of the store any Exception, and get_collection (called
\* first by search, line 75) its RuntimeError when the collection does not
\* exist.
SearchExcTexts(exists) == IF exists THEN ExcTexts ELSE ExcTexts \cup {NotFoundText}

\* Image.open, extract_from_pil or the search of the store raises an
\* exception (lines 89-103); the handler's except clause answers. Without
\* the collection the request is taken all the same and the search raises.
SearchRaises ==
  /\ query.pc = "idle"
  /\ \E text \in SearchExcTexts(has_collection) :
       query' = [NoQuery EXCEPT !.pc = "failed", !.raised = text,
                                !.reply = ErrorEnvelope(text)]
  /\ UNCHANGED << world, locals, budget, history, trunc, grouping, others >>

\* The request is cancelled while the handler waits in `await file.read()`
\* (line 89), its only await: asyncio.CancelledError is a BaseException,
\* `except Exception` (line 133) lets it pass and the handler ends without
\* a reply. str(CancelledError()) is the empty text.
SearchCancelled ==
  /\ query.pc = "idle"
  /\ query' = [NoQuery EXCEPT !.pc = "cancelled", !.raised = << >>]
  /\ UNCHANGED << world, locals, budget, history, trunc, grouping, others >>

\* group_by_patent raises (line 107); the handler's except clause answers.
GroupRaises ==
  /\ query.pc = "searched"
  /\ \E text \in ExcTexts :
       query' = [query EXCEPT !.pc = "failed", !.raised = text,
                              !.reply = ErrorEnvelope(text)]
  /\ UNCHANGED << world, locals, budget, history, trunc, grouping, others >>

\* return {"code": 0, ...} (lines 111-132)
Respond ==
  /\ query.pc = "grouped"
  /\ query' = [query EXCEPT
                 !.pc = "replied",
                 !.reply = SuccessEnvelope(
                             grouping.calls[Len(grouping.calls)].out,
                             query.results)]
  /\ UNCHANGED << world, locals, budget, history, trunc, grouping, others >>

\* The records of a complete import of a corpus, and the rows they make.
RECURSIVE CorpusRecords(_, _)
CorpusRecords(corpus, now) ==
  IF corpus = << >> THEN << >>
  ELSE LET p == Head(corpus)
       IN [j \in 1..Len(p.images) |->
             MakeRecord(p, j - 1, p.images[j],
                        GetUrl(ObjectName(p.patent_id, p.images[j])), now)]
            \o CorpusRecords(Tail(corpus), now)

RowsOf(records, first_id) ==
  [k \in DOMAIN records |-> Row(records[k], first_id + k - 1)]

\* The collection after one import of the search corpus, and after a second
\* import in append mode whose key scan failed.
ImportedOnce == RowsOf(CorpusRecords(SearchCorpus, 0), 1)
ImportedTwice ==
  ImportedOnce \o RowsOf(CorpusRecords(SearchCorpus, 1), Len(ImportedOnce) + 1)

\* The rows the hits are made of: the collection after one import, and a row
\* of the first patent written when its XML held another title and applicant.
HitRows ==
  Append(ImportedOnce,
         [ImportedOnce[2] EXCEPT !.id = Len(ImportedOnce) + 1,
                                 !.title = << "o" >>,
                                 !.applicant_name = << "n" >>])

\* The hits group_by_patent of search_design is handed on its own: the
\* dicts search makes of the rows of the collection, with any score.
HitUniverse ==
  {HitDict([id |-> HitRows[k].id, score |-> sc, entity |-> HitRows[k]]) :
     k \in DOMAIN HitRows, sc \in {80, 90}}

\* The rows of the base collection for the same images (fields of
\* milvus_base_service.py lines 68-75): page_num is a text of at most 16
\* characters that insert (lines 124-141) stores as it is given, here the
\* page numbers 10 and 9 written without padding for the pages of the first
\* patent, and "001" as the flat import writes it for every file.
BasePageNums ==
  << << "1","0" >>, << "9" >>, << "0","0","1" >>, << "9" >> >>

BaseRows ==
  [k \in DOMAIN HitRows |->
     [id |-> HitRows[k].id, file_name |-> HitRows[k].file_name,
      patent_id |-> HitRows[k].patent_id, page_num |-> BasePageNums[k],
      file_path |-> HitRows[k].file_path]]

\* The hit of the base collection for the image and the score of a hit of
\* the design collection.
BaseHitOf(h) ==
  HitDictBase([id |-> h.id, score |-> h.score, entity |-> BaseRows[h.id]])

HitLists == UNION {[1..n -> HitUniverse] : n \in 0..MaxHits}

\* group_by_patent of both endpoints called on its own, each with the hits
\* its service makes for the same images and scores; a later call is made
\* with the two lists of the first, the same objects.
GroupCall ==
  /\ query.pc = "idle"
  /\ Len(grouping.calls) < MaxCalls
  /\ IF grouping.calls = << >>
       THEN \E hits \in HitLists :
              LET placed == HitsPlaced(grouping.heap, hits,
                                       [i \in DOMAIN hits |->
                                          BaseHitOf(hits[i])])
              IN GroupHits(placed.heap, placed.a, placed.b)
       ELSE GroupHits(grouping.heap, grouping.calls[1].ref,
                      grouping.calls[1].ref_base)
  /\ UNCHANGED << world, locals, budget, history, trunc, query, others >>

(* ------------------------- scan_design_patents ------------------------- *)

\* What data_path.glob('USD*') may list: a plain file, or a subdirectory
\* with its *.XML files in the order glob gives them; each file holds a
\* patent that parse_design_patent_xml can read, or cannot.
Xml(id, ok) == [patent_id |-> << id >>, parses |-> ok]
Entry(is_dir, xmls) == [is_dir |-> is_dir, xmls |-> xmls]

Entries ==
  {Entry(FALSE, << >>), Entry(TRUE, << >>),
   Entry(TRUE, << Xml("A", TRUE) >>), Entry(TRUE, << Xml("A", FALSE) >>),
   Entry(TRUE, << Xml("A", TRUE), Xml("B", TRUE) >>),
   Entry(TRUE, << Xml("A", FALSE), Xml("B", TRUE) >>)}

Listings == UNION {[1..n -> Entries] : n \in 0..MaxEntries}

\* parse_design_patent_xml: the patent, or None (here: no element) when the
\* file cannot be parsed (lines 242-249).
ParseXml(xml) ==
  IF xml.parses THEN << [patent_id |-> xml.patent_id] >> ELSE << >>

NoScan ==
  [pc |-> "idle", dirs |-> << >>, pos |-> 0, patents |-> << >>,
   log |-> << >>, returned |-> << >>]

\* scan_design_patents(data_dir) is called (lines 262-263).
ScanStart ==
  /\ scanner.pc = "idle"
  /\ \E dirs \in Listings :
       scanner' = [NoScan EXCEPT !.pc = "scanning", !.dirs = dirs]
  /\ UNCHANGED << world, locals, budget, history, trunc, searching, uploads,
                  flat, ruiguan,
                  endpoints >>

\* if not xml_files: continue (lines 271-273)
NoXmlFiles(xmls) == xmls = << >>

\* One round of the loop over the entries (lines 266-282).
ScanEntry ==
  /\ scanner.pc = "scanning"
  /\ scanner.pos < Len(scanner.dirs)
  /\ LET at == scanner.pos + 1
         entry == scanner.dirs[at]
         r == ParseXml(entry.xmls[1])
         next == [scanner EXCEPT !.pos = at]
     IN scanner' =
          IF ~entry.is_dir THEN next
          ELSE IF NoXmlFiles(entry.xmls) THEN next
          ELSE IF r # << >>
            THEN [next EXCEPT
                    !.patents = Append(@, [entry |-> at,
                                           patent_id |-> r[1].patent_id]),
                    !.log = Append(@, [entry |-> at, line |-> "parsed"])]
          ELSE [next EXCEPT
                  !.log = Append(@, [entry |-> at, line |-> "parse failed"])]
  /\ UNCHANGED << world, locals, budget, history, trunc, searching, uploads,
                  flat, ruiguan,
                  endpoints >>

\* return patents (line 285): the caller gets the list when the loop is over.
ScanReturn ==
  /\ scanner.pc = "scanning"
  /\ scanner.pos = Len(scanner.dirs)
  /\ scanner' = [scanner EXCEPT !.pc = "returned", !.returned = scanner.patents]
  /\ UNCHANGED << world, locals, budget, history, trunc, searching, uploads,
                  flat, ruiguan,
                  endpoints >>

(* ------------------- upload_image_to_minio on its own ------------------ *)

\* The images upload_image_to_minio is called for.
UploadTargets ==
  UNION {{<< SearchCorpus[p].patent_id, SearchCorpus[p].images[j] >> :
            j \in DOMAIN SearchCorpus[p].images} : p \in DOMAIN SearchCorpus}

\* upload_image_to_minio(local_path, patent_id, file_name), lines 110-118.
UploadCall ==
  /\ Len(uploads) < MaxUploads
  /\ \E t \in UploadTargets, stat_ok \in BOOLEAN, put_ok \in BOOLEAN :
       LET r == UploadImage(objects, t[1], t[2], stat_ok, put_ok)
       IN /\ objects' = r.objects
          /\ uploads' = Append(uploads,
                               [patent_id |-> t[1], file_name |-> t[2],
                                before |-> objects, after |-> r.objects,
                                put |-> r.put, url |-> r.url])
  /\ UNCHANGED << cid, has_collection, store, next_id, locals, budget, history,
                  trunc, searching, scanner, flat, ruiguan, endpoints >>

\* The object names upload_bytes is called with: a name of its own, and the
\* name of an image's object.
BytesTargets ==
  {ObjectName(<< "X" >>, << "t",".","P" >>),
   ObjectName(SearchCorpus[1].patent_id, SearchCorpus[1].images[1])}

\* MinIOService.upload_bytes(data, object_name) (minio_service.py 97-126):
\* put_object stores the bytes under that name, and None is returned when
\* it raises.
UploadBytesCall ==
  /\ \E object_name \in BytesTargets, put_ok \in BOOLEAN :
       objects' = IF put_ok THEN objects \cup {object_name} ELSE objects
  /\ UNCHANGED << cid, has_collection, store, next_id, locals, budget, history,
                  trunc, searching, scanner, uploads, flat, ruiguan,
                  endpoints >>

(* ----------------------- the flat-corpus uploaders --------------------- *)

\* The image files of LOCAL_DIR, named by their place in sorted order.
FlatFiles == 1..(SAVE_INTERVAL + FlatTail)

\* The file whose upload may fail.
FlakyFile == 3

\* What upload_progress.json may hold when a run starts: nothing, some of
\* the files, or all of them.
ProgressFiles == {{}, {1}, {1, 2}, FlatFiles}

NoFlat ==
  [script |-> "none", pc |-> "idle", progress_file |-> {}, loaded |-> {},
   uploaded |-> {}, pending |-> << >>, i |-> 0, success_count |-> 0,
   fail_count |-> 0, puts |-> << >>]

\* sorted(images) without the files of `uploaded` (lines 68-72).
RECURSIVE Pending(_, _)
Pending(from, done) ==
  IF from \notin FlatFiles THEN << >>
  ELSE (IF from \in done THEN << >> ELSE << from >>) \o Pending(from + 1, done)

\* main up to the loop (lines 63-81): the progress file is loaded, the
\* files in it are left out; with nothing pending main returns.
FlatStart ==
  /\ flat.pc = "idle"
  /\ \E script \in {"testImage", "ruiguan"}, on_disk \in ProgressFiles :
       LET pending == Pending(1, on_disk)
       IN flat' = [NoFlat EXCEPT !.script = script,
                                 !.pc = IF pending = << >> THEN "done" ELSE "loop",
                                 !.progress_file = on_disk,
                                 !.loaded = on_disk,
                                 !.uploaded = on_disk,
                                 !.pending = pending,
                                 !.i = 1]
  /\ UNCHANGED << world, locals, budget, history, trunc, searching, scanner,
                  uploads, ruiguan,
                  endpoints >>

\* if success_count % 100 == 0: save_progress(uploaded), in the testImage
\* uploader (lines 93-95); the ruiguan uploader has no such lines.
SaveDue(script, successes) ==
  script = "testImage" /\ successes % SAVE_INTERVAL = 0

\* save_progress(uploaded) (lines 31-40), as what load_progress would read
\* from upload_progress.json after it. Every Exception of open and json.dump
\* is caught and printed, and the caller goes on. save: ok, the set is
\* written; empty, the file was opened for writing and the write failed, so
\* that it holds nothing readable; refused, open raised and the file is as
\* it was.
SaveProgress(on_disk, uploaded, save) ==
  CASE save = "ok" -> uploaded
    [] save = "empty" -> {}
    [] save = "refused" -> on_disk

\* One round of the loop (testImage: lines 83-100, ruiguan: lines 83-95).
FlatUpload ==
  /\ flat.pc = "loop"
  /\ flat.i <= Len(flat.pending)
  /\ \E ok \in BOOLEAN, save \in {"ok", "empty", "refused"} :
       LET f == flat.pending[flat.i]
           now_up == flat.uploaded \cup {f}
       IN /\ ~ok => f = FlakyFile
          /\ save # "ok" => ok /\ SaveDue(flat.script, flat.success_count + 1)
          /\ flat' =
               IF ok
                 THEN [flat EXCEPT
                         !.i = @ + 1,
                         !.uploaded = now_up,
                         !.success_count = @ + 1,
                         !.puts = Append(@, f),
                         !.progress_file =
                            IF SaveDue(flat.script, flat.success_count + 1)
                              THEN SaveProgress(@, now_up, save) ELSE @]
                 ELSE [flat EXCEPT !.i = @ + 1, !.fail_count = @ + 1]
  /\ UNCHANGED << world, locals, budget, history, trunc, searching, scanner,
                  uploads, ruiguan,
                  endpoints >>

\* save_progress(uploaded) after the loop (testImage: line 103, ruiguan:
\* line 98).
FlatFinish ==
  /\ flat.pc = "loop"
  /\ flat.i > Len(flat.pending)
  /\ \E save \in {"ok", "empty", "refused"} :
       flat' = [flat EXCEPT !.pc = "done",
                            !.progress_file =
                               SaveProgress(@, flat.uploaded, save)]
  /\ UNCHANGED << world, locals, budget, history, trunc, searching, scanner,
                  uploads, ruiguan,
                  endpoints >>

\* Ctrl-C while main runs: main has no handler and the `except Exception`
\* of load_progress and save_progress (lines 26, 39) does not catch it, so
\* the process ends where it stands. at: where the interrupt arrives.
\*   started: before load_progress returned (lines 54-64);
\*   loaded: after load_progress (line 64), before pending is made;
\*   pending: after pending is made (line 72), before the loop or the
\*     return of line 77;
\*   between: between two rounds of the loop, after the last one, or
\*     inside upload_file before anything was stored (line 87);
\*   put: inside upload_file (line 87), after fput_object stored the object;
\*   added: after uploaded.add (line 90);
\*   counted: after success_count += 1 (line 91);
\*   failed: after fail_count += 1 (testImage: line 99, ruiguan: line 94);
\*   saving: inside save_progress, after open(PROGRESS_FILE, "w") emptied
\*     the file (line 34) and before json.dump wrote it;
\*   saved: after save_progress returned, whatever it did to the file,
\*     before the next statement (testImage: lines 96-97 and 105-107,
\*     ruiguan: lines 100-102).
\* The file the run found is free before the loop; from the loop on the
\* file is as the run has left it.
FlatInterrupt ==
  /\ \E at \in {"started", "loaded", "pending", "between", "put", "added",
                "counted", "failed", "saving", "saved"},
        script \in {"testImage", "ruiguan"}, on_disk \in ProgressFiles,
        save \in {"ok", "empty", "refused"} :
       LET setup == at \in {"started", "loaded", "pending"}
           in_round == flat.i <= Len(flat.pending)
           f == flat.pending[flat.i]
           put == [flat EXCEPT !.puts = Append(@, f)]
           added == [put EXCEPT !.uploaded = @ \cup {f}]
           counted == [added EXCEPT !.success_count = @ + 1]
           \* what save_progress is called with
           cur == IF in_round THEN counted ELSE flat
           saves == IF in_round
                      THEN SaveDue(flat.script, flat.success_count + 1)
                      ELSE TRUE
           before == [NoFlat EXCEPT !.script = script,
                                    !.progress_file = on_disk]
           loaded == [before EXCEPT !.loaded = on_disk, !.uploaded = on_disk]
           k == CASE at = "started" -> before
                  [] at = "loaded" -> loaded
                  [] at = "pending" ->
                       [loaded EXCEPT !.pending = Pending(1, on_disk)]
                  [] at = "between" -> flat
                  [] at = "put" -> put
                  [] at = "added" -> added
                  [] at = "counted" -> counted
                  [] at = "failed" -> [flat EXCEPT !.fail_count = @ + 1]
                  [] at = "saving" -> [cur EXCEPT !.progress_file = {}]
                  [] at = "saved" ->
                       [cur EXCEPT !.progress_file =
                                      SaveProgress(@, cur.uploaded, save)]
       IN /\ flat.pc = IF setup THEN "idle" ELSE "loop"
          \* from the loop on the script and the file are the run's
          /\ ~setup => script = flat.script /\ on_disk = {}
          /\ at \in {"put", "added", "counted", "failed"} => in_round
          /\ at = "failed" => f = FlakyFile
          /\ at \in {"saving", "saved"} => saves
          /\ at # "saved" => save = "ok"
          /\ flat' = [k EXCEPT !.pc = "killed"]
  /\ UNCHANGED << world, locals, budget, history, trunc, searching, scanner,
                  uploads, ruiguan,
                  endpoints >>

(* ------------------------ the flat-corpus import ----------------------- *)

\* extract_single(path) / extract_batch(paths): the features of a file,
\* named by the file.
Emb(f) == << "emb", f >>

\* pending[i:i + BATCH_SIZE] (line 156), the pending files named by their
\* place in sorted order and i counted from 1.
BatchFiles(i) ==
  LET last == IF i + FlatBatchSize - 1 < FlatPending
                THEN i + FlatBatchSize - 1 ELSE FlatPending
  IN [k \in 1..(last - i + 1) |-> i + k - 1]

\* The fallback loop that leaves a failed file out of the list.
RECURSIVE ExtractEachDropping(_, _, _)
ExtractEachDropping(files, bad, k) ==
  IF k > Len(files) THEN << >>
  ELSE (IF k \in bad THEN << >> ELSE << Emb(files[k]) >>)
         \o ExtractEachDropping(files, bad, k + 1)

\* The fallback loop (lines 167-175) from file k on: extract_single for each
\* path, None for a path whose extraction raises (bad: their places).
RECURSIVE ExtractEach(_, _, _)
ExtractEach(files, bad, k) ==
  IF k > Len(files) THEN << >>
  ELSE << IF k \in bad THEN None ELSE Emb(files[k]) >>
         \o ExtractEach(files, bad, k + 1)

\* insert_data (lines 178-194): zip(batch_files, embeddings), the pairs
\* with an embedding of None left out.
RECURSIVE InsertData(_, _)
InsertData(files, embeddings) ==
  IF files = << >> \/ embeddings = << >> THEN << >>
  ELSE (IF Head(embeddings) = None THEN << >>
        ELSE << [file_name |-> Head(files), embedding |-> Head(embeddings)] >>)
         \o InsertData(Tail(files), Tail(embeddings))

NoRuiguan ==
  [i |-> 1, rows |-> << >>, success_count |-> 0, fail_count |-> 0,
   files |-> << >>, batch_ok |-> TRUE, bad |-> {}, insert_data |-> << >>]

\* One round of the loop over the batches (lines 155-216). batch_ok:
\* extract_batch returns; bad: the files whose extract_single raises;
\* insert_ok: collection.insert returns (line 207); stored: the store took
\* the records, which it may have done when insert raises all the same;
\* flush_ok: collection.flush() returns (line 208). The three statements of
\* lines 207-209 are in one try block, so the records are counted as
\* successes only when insert and flush both return, and as failures
\* otherwise (line 213), stored or not.
ImportBatch ==
  /\ ruiguan.i <= FlatPending
  /\ \E batch_ok \in BOOLEAN, bad \in SUBSET (1..FlatBatchSize),
        insert_ok \in BOOLEAN, stored \in BOOLEAN, flush_ok \in BOOLEAN :
       LET files == BatchFiles(ruiguan.i)
           embeddings == IF batch_ok
                           THEN [k \in DOMAIN files |-> Emb(files[k])]
                           ELSE ExtractEach(files, bad, 1)
           insert_data == InsertData(files, embeddings)
           counted == insert_ok /\ flush_ok
       IN /\ bad \subseteq DOMAIN files
          /\ batch_ok => bad = {}
          /\ insert_ok => stored
          \* flush is reached only when insert returned
          /\ ~insert_ok => flush_ok
          /\ insert_data = << >> => insert_ok /\ flush_ok
          /\ ruiguan' =
               [i |-> ruiguan.i + FlatBatchSize,
                rows |-> IF stored THEN ruiguan.rows \o insert_data
                                   ELSE ruiguan.rows,
                success_count |-> ruiguan.success_count
                                    + (IF counted THEN Len(insert_data) ELSE 0),
                fail_count |-> ruiguan.fail_count + Cardinality(bad)
                                 + (IF counted THEN 0 ELSE Len(insert_data)),
                files |-> files, batch_ok |-> batch_ok, bad |-> bad,
                insert_data |-> insert_data]
  /\ UNCHANGED << world, locals, budget, history, trunc, searching, scanner,
                  uploads, flat,
                  endpoints >>

(* ------------------------- the batch endpoints ------------------------- *)

\* batch_import_base_service (line 5) is the object of a module that is not
\* among the sources. What is known of it is what the endpoints do with it:
\* they read status, assign status, processed, failed and error_message, and
\* call start_import() and get_status(). The values status may hold are the
\* ones the endpoints name (lines 16, 61, 80); of processed and failed, the
\* values of lines 81-82 and one other each; of error_message, None (line
\* 83) and a text.
Statuses == {"idle", "running", "error"}

Attributes ==
  [status : Statuses, processed : {0, 1}, failed : {<< >>, << "f" >>},
   error_message : {None, << "e" >>}]

\* The four attributes of a service.
AttributesOf(svc) ==
  [status |-> svc.status, processed |-> svc.processed, failed |-> svc.failed,
   error_message |-> svc.error_message]

\* The attributes as lines 80-83 leave them, and no call of start_import
\* yet (launches: history, the calls of start_import).
IdleService ==
  [status |-> "idle", processed |-> 0, failed |-> << >>,
   error_message |-> None, launches |-> 0]

\* What get_status() returns, which the endpoints pass on as data (lines
\* 21, 28-34): a value the sources say nothing about.
StatusData == << "<status>" >>

\* str(e) of an exception that a statement on the service raises: the
\* message of the except branches (lines 36-43 and 90-96).
ServiceError == "<str(e)>"

\* A test for a running import that never finds one.
RunningNever(status) == FALSE

\* if batch_import_base_service.status == "running" (lines 16 and 74)
Running(status) == status = "running"

\* running: the status was "running" when the handler tested it.
Reply(endpoint, running, code, message, data) ==
  [endpoint |-> endpoint, running |-> running, code |-> code,
   message |-> message, data |-> data]

\* No request is being handled.
NoRequest == [op |-> "none", pc |-> "idle", running |-> FALSE]

\* POST /api/base/batch/start (lines 10-43), a statement at a time: the
\* handler is a coroutine without an await, so that no other handler runs
\* before it returns, but the rest of the process does (ServiceChanges).
\* With no request being handled: the test of line 16. refuse: get_status()
\* and the return of lines 18-22. launch: start_import() (line 26). report:
\* get_status() and the return of lines 28-35. raises: the statement
\* raises and the handler returns from its except branch (lines 36-43); a
\* test that raises has found no import running.
StartEndpoint ==
  /\ \E raises \in BOOLEAN :
       IF request.op = "none"
         THEN /\ Len(api) < MaxRequests
              /\ IF raises
                   THEN /\ api' = Append(api, Reply("start", FALSE, 1,
                                                    ServiceError, None))
                        /\ UNCHANGED request
                   ELSE /\ request' =
                             [op |-> "start",
                              pc |-> IF Running(service.status)
                                       THEN "refuse" ELSE "launch",
                              running |-> (service.status = "running")]
                        /\ UNCHANGED api
              /\ UNCHANGED service
       ELSE IF request.op # "start" THEN FALSE
       ELSE IF request.pc = "refuse"
         THEN /\ api' = Append(api,
                               IF raises
                                 THEN Reply("start", request.running, 1,
                                            ServiceError, None)
                                 ELSE Reply("start", request.running, 1,
                                            "Import already running",
                                            StatusData))
              /\ request' = NoRequest
              /\ UNCHANGED service
       ELSE IF request.pc = "launch"
         THEN /\ service' = [service EXCEPT !.launches = @ + 1]
              /\ IF raises
                   THEN /\ api' = Append(api, Reply("start", request.running,
                                                    1, ServiceError, None))
                        /\ request' = NoRequest
                   ELSE /\ request' = [request EXCEPT !.pc = "report"]
                        /\ UNCHANGED api
       ELSE /\ request.pc = "report"
            /\ api' = Append(api,
                             IF raises
                               THEN Reply("start", request.running, 1,
                                          ServiceError, None)
                               ELSE Reply("start", request.running, 0,
                                          "Import started", StatusData))
            /\ request' = NoRequest
            /\ UNCHANGED service
  /\ UNCHANGED << world, locals, budget, history, trunc, searching, scanner,
                  uploads, flat, ruiguan, minio >>

\* POST /api/base/batch/reset (lines 68-96), a statement at a time. With no
\* request being handled: the test of line 74, and the return of lines
\* 75-78 when it finds an import running. status, processed, failed,
\* error_message: the assignment of that attribute (lines 80-83); after the
\* last one the handler returns (lines 85-89). raises: the statement raises,
\* assigns nothing, and the handler returns from its except branch (lines
\* 90-96); a test that raises has found no import running.
ResetEndpoint ==
  /\ \E raises \in BOOLEAN :
       IF request.op = "none"
         THEN /\ Len(api) < MaxRequests
              /\ IF raises
                   THEN /\ api' = Append(api, Reply("reset", FALSE, 1,
                                                    ServiceError, None))
                        /\ UNCHANGED request
                   ELSE IF Running(service.status)
                     THEN /\ api' = Append(api,
                                           Reply("reset",
                                                 service.status = "running",
                                                 1,
                                                 "Cannot reset while running",
                                                 None))
                          /\ UNCHANGED request
                   ELSE /\ request' =
                             [op |-> "reset", pc |-> "status",
                              running |-> (service.status = "running")]
                        /\ UNCHANGED api
              /\ UNCHANGED service
       ELSE IF request.op # "reset" THEN FALSE
       ELSE IF raises
         THEN /\ api' = Append(api, Reply("reset", request.running, 1,
                                          ServiceError, None))
              /\ request' = NoRequest
              /\ UNCHANGED service
       ELSE IF request.pc = "status"
         THEN /\ service' = [service EXCEPT !.status = "idle"]
              /\ request' = [request EXCEPT !.pc = "processed"]
              /\ UNCHANGED api
       ELSE IF request.pc = "processed"
         THEN /\ service' = [service EXCEPT !.processed = 0]
              /\ request' = [request EXCEPT !.pc = "failed"]
              /\ UNCHANGED api
       ELSE IF request.pc = "failed"
         THEN /\ service' = [service EXCEPT !.failed = << >>]
              /\ request' = [request EXCEPT !.pc = "error_message"]
              /\ UNCHANGED api
       ELSE /\ request.pc = "error_message"
            /\ service' = [service EXCEPT !.error_message = None]
            /\ api' = Append(api, Reply("reset", request.running, 0,
                                        "Status reset", None))
            /\ request' = NoRequest
  /\ UNCHANGED << world, locals, budget, history, trunc, searching, scanner,
                  uploads, flat, ruiguan, minio >>

\* The rest of the process: start_import() runs the import in a background
\* thread (line 24), and the thread, like everything else of the module
\* that is not among the sources, may assign the attributes between any two
\* statements of a handler. What it assigns is not known: any values.
ServiceChanges ==
  /\ \E a \in Attributes :
       /\ a # AttributesOf(service)
       /\ service' = a @@ [launches |-> service.launches]
  /\ UNCHANGED << world, locals, budget, history, trunc, searching, scanner,
                  uploads, flat, ruiguan, api, minio, request >>

(* ------------------------- MinIOService.connect ------------------------ *)

\* The singleton before any call: _client is None.
NoMinio == [client |-> FALSE, calls |-> << >>]

\* connect() (lines 27-53). built: Minio(...) returns a client; bucket_ok:
\* bucket_exists, and make_bucket where it is needed, succeed. What it
\* leaves: whether _client is set, what it returned, whether it went to the
\* server and whether the bucket was checked or made.
Connect(client, built, bucket_ok) ==
  IF client
    THEN [client |-> TRUE, returned |-> TRUE, attempted |-> FALSE,
          verified |-> FALSE]
  ELSE IF ~built
    THEN [client |-> FALSE, returned |-> FALSE, attempted |-> TRUE,
          verified |-> FALSE]
  ELSE [client |-> TRUE, returned |-> bucket_ok, attempted |-> TRUE,
        verified |-> bucket_ok]

\* minio_service.connect() is called.
ConnectCall ==
  /\ Len(minio.calls) < MaxConnects
  /\ \E built, bucket_ok \in BOOLEAN :
       LET r == Connect(minio.client, built, bucket_ok)
       IN /\ ~built => ~bucket_ok
          /\ minio' = [client |-> r.client,
                       calls |-> Append(minio.calls,
                                        [op |-> "connect",
                                         returned |-> r.returned,
                                         attempted |-> r.attempted,
                                         verified |-> r.verified])]
  /\ UNCHANGED << world, locals, budget, history, trunc, searching, scanner,
                  uploads, flat, ruiguan, service, api, request >>

\* minio_service.get_client() is called (lines 55-59): it connects when
\* _client is None and returns _client; returned: it is not None.
GetClientCall ==
  /\ Len(minio.calls) < MaxConnects
  /\ \E built, bucket_ok \in BOOLEAN :
       LET r == Connect(minio.client, built, bucket_ok)
       IN /\ ~built => ~bucket_ok
          /\ minio.client => (built /\ bucket_ok)
          /\ minio' = [client |-> r.client,
                       calls |-> Append(minio.calls,
                                        [op |-> "get_client",
                                         returned |-> r.client,
                                         attempted |-> r.attempted,
                                         verified |-> r.verified])]
  /\ UNCHANGED << world, locals, budget, history, trunc, searching, scanner,
                  uploads, flat, ruiguan, service, api, request >>

(* ---------------------------- specifications --------------------------- *)

\* Nothing but the import and the searches has been called.
OthersIdle ==
  /\ scanner = NoScan
  /\ uploads = << >>
  /\ flat = NoFlat
  /\ ruiguan = NoRuiguan
  /\ service = IdleService
  /\ api = << >>
  /\ request = NoRequest
  /\ minio = NoMinio

\* Before a run over corpus c, with the rows an earlier import left in the
\* collection and their objects in the bucket; without rows there is no
\* collection yet.
InitOver(c, runs, faults, rows) ==
  /\ cid = c
  /\ has_collection = (rows # << >>)
  /\ store = rows
  /\ next_id = Len(rows) + 1
  /\ objects = {ObjectName(rows[k].patent_id, rows[k].file_name) :
                  k \in DOMAIN rows}
  /\ pc = "idle"
  /\ append = FALSE
  /\ last_id = -1
  /\ existing_keys = {}
  /\ pidx = 0 /\ iidx = 0
  /\ patent_count = 0 /\ processed_images = 0
  /\ success_count = 0 /\ fail_count = 0 /\ skip_count = 0
  /\ batch_data = << >> /\ failed_records = << >>
  /\ ledger = [written |-> FALSE, lines |-> << >>]
  /\ runs_left = runs /\ faults_left = faults
  /\ batch_ords = << >> /\ failed_ords = << >>
  /\ h_appended = << >> /\ h_calls = << >>
  /\ h_count0 = 0 /\ h_stored0 = FALSE /\ h_clean = TRUE
  /\ h_keys_raised = FALSE
  /\ h_gc = << >> /\ h_reports = << >> /\ h_mid = FALSE
  /\ h_only_append = TRUE
  /\ t_in = << >> /\ t_max = 0 /\ t_out = << >>
  /\ query = NoQuery
  /\ grouping = NoGrouping
  /\ OthersIdle

\* Before the first run over corpus c: no collection, nothing in the bucket.
InitRun(c, runs, faults) == InitOver(c, runs, faults, << >>)

\* Runs over the small corpora, one after the other.
Init == \E c \in SmallCorpusIds : InitRun(c, MaxRuns, MaxFaults)

Next ==
  \/ \E ap \in BOOLEAN : StartRun(ap)
  \/ KeysPage
  \/ NextPatent
  \/ ProcessImage
  \/ Finish

Spec == Init /\ [][Next]_vars

\* One run over the corpus that fills a batch.
InitBatch == InitRun("big", 1, MaxFaults)

SpecBatch == InitBatch /\ [][Next]_vars

\* One run over the corpus that reaches a reclamation interval, with at most
\* one failure.
InitLongRun == InitRun("longrun", 1, 1)

SpecLongRun == InitLongRun /\ [][Next]_vars

\* One run without failures over the same corpus, after an earlier import
\* left the first GC_INTERVAL % INSERT_BATCH_SIZE of its images in the
\* collection: in append mode these are skipped, and the image that fills
\* the last batch is the one at which the reclamation is due.
InitResumed ==
  InitOver("longrun", 1, 0,
           SubSeq(RowsOf(CorpusRecords(LongRunCorpus, 0), 1),
                  1, GC_INTERVAL % INSERT_BATCH_SIZE))

\* One run with --data-dir naming a corpus, or a directory that does not
\* exist, with no collection yet or with the collection an earlier import
\* filled.
InitRoot ==
  \E c \in {"scenario", "missing"}, rows \in {<< >>, ImportedOnce} :
    InitOver(c, 1, MaxFaults, rows)

NextRoot == Next \/ ScanRaises

SpecRoot == InitRoot /\ [][NextRoot]_vars

\* Runs over a corpus whose keys are ambiguous, or whose texts are longer
\* than their columns.
InitKeyed == \E c \in {"ambiguous", "long"} : InitRun(c, MaxRuns, MaxFaults)

SpecKeyed == InitKeyed /\ [][Next]_vars

\* Runs that Ctrl-C may end.
NextStop == Next \/ Interrupt

\* The small corpora, the corpus that fills a batch and the one that reaches
\* a reclamation interval.
InitStop == Init \/ InitBatch \/ InitLongRun \/ InitResumed

SpecStop == InitStop /\ [][NextStop]_vars

\* One run over the corpus of long texts, and truncate_str called on its own.
InitTrunc == InitRun("long", 1, 0)

NextTrunc == Next \/ TruncateCall

SpecTrunc == InitTrunc /\ [][NextTrunc]_vars

\* The rows of the collection that a complete import of the wide corpus
\* filled: more rows than one page holds.
WideStore ==
  LET p == WideCorpus[1]
  IN [j \in 1..Len(p.images) |->
        Row(MakeRecord(p, j - 1, p.images[j],
                       GetUrl(ObjectName(p.patent_id, p.images[j])), 0), j)]

\* The numbers of rows of the collections that are scanned: none, a few,
\* exactly one page, and more than one page.
ScannedSizes ==
  (0..MaxFewRows) \cup {QUERY_LIMIT, QUERY_LIMIT + KeysExtra}

\* The key scan of an append run over a collection that an import of the
\* wide corpus filled, completely or up to some image.
InitKeys ==
  /\ cid = "wide"
  /\ has_collection = TRUE
  /\ store \in {SubSeq(WideStore, 1, n) : n \in ScannedSizes}
  /\ next_id = Len(store) + 1
  /\ objects = {ObjectName(WideCorpus[1].patent_id, WideCorpus[1].images[j]) :
                  j \in 1..Len(WideCorpus[1].images)}
  /\ pc = "keys"
  /\ append = TRUE
  /\ last_id = -1
  /\ existing_keys = {}
  /\ pidx = 0 /\ iidx = 0
  /\ patent_count = 0 /\ processed_images = 0
  /\ success_count = 0 /\ fail_count = 0 /\ skip_count = 0
  /\ batch_data = << >> /\ failed_records = << >>
  /\ ledger = [written |-> FALSE, lines |-> << >>]
  /\ runs_left = 0 /\ faults_left = MaxFaults
  /\ batch_ords = << >> /\ failed_ords = << >>
  /\ h_appended = << >> /\ h_calls = << >>
  /\ h_count0 = Len(store) /\ h_stored0 = (store = WideStore)
  /\ h_clean = TRUE
  /\ h_keys_raised = FALSE
  /\ h_gc = << >> /\ h_reports = << >> /\ h_mid = FALSE
  /\ h_only_append = TRUE
  /\ t_in = << >> /\ t_max = 0 /\ t_out = << >>
  /\ query = NoQuery
  /\ grouping = NoGrouping
  /\ OthersIdle

SpecKeys == InitKeys /\ [][KeysPage]_vars

\* The key scan as a loop that goes on running: get_existing_keys is
\* sequential code and no turn of its loop waits for anything but the query.
SpecKeysLive == InitKeys /\ [][KeysPage]_vars /\ WF_vars(KeysPage)

\* Searches over the collection that imports of the search corpus filled.
InitSearch ==
  /\ cid = "search"
  /\ has_collection \in BOOLEAN
  /\ store \in (IF has_collection THEN {ImportedOnce, ImportedTwice}
                                   ELSE {<< >>})
  /\ next_id = Len(store) + 1
  /\ objects = {ObjectName(store[k].patent_id, store[k].file_name) :
                  k \in DOMAIN store}
  /\ pc = "idle"
  /\ append = FALSE
  /\ last_id = -1
  /\ existing_keys = {}
  /\ pidx = 0 /\ iidx = 0
  /\ patent_count = 0 /\ processed_images = 0
  /\ success_count = 0 /\ fail_count = 0 /\ skip_count = 0
  /\ batch_data = << >> /\ failed_records = << >>
  /\ ledger = [written |-> FALSE, lines |-> << >>]
  /\ runs_left = 0 /\ faults_left = 0
  /\ batch_ords = << >> /\ failed_ords = << >>
  /\ h_appended = << >> /\ h_calls = << >>
  /\ h_count0 = 0 /\ h_stored0 = FALSE /\ h_clean = TRUE
  /\ h_keys_raised = FALSE
  /\ h_gc = << >> /\ h_reports = << >> /\ h_mid = FALSE
  /\ h_only_append = TRUE
  /\ t_in = << >> /\ t_max = 0 /\ t_out = << >>
  /\ query = NoQuery
  /\ grouping = NoGrouping
  /\ OthersIdle

NextSearch == Search \/ GroupResults

SpecSearch == InitSearch /\ [][NextSearch]_vars

\* Requests to the search endpoint, each step of which may raise.
NextHandler ==
  \/ Search \/ GroupResults \/ Respond
  \/ SearchRaises \/ GroupRaises \/ SearchCancelled

SpecHandler == InitSearch /\ [][NextHandler]_vars

\* group_by_patent called on its own.
InitGroup == InitRun("search", 0, 0)

SpecGroup == InitGroup /\ [][GroupCall]_vars

\* scan_design_patents called on its own.
InitScan == InitRun("scenario", 0, 0)

NextScan == ScanStart \/ ScanEntry \/ ScanReturn

SpecScan == InitScan /\ [][NextScan]_vars

\* upload_image_to_minio called on its own, the bucket empty at first.
InitUpload == InitRun("search", 0, 0)

NextUpload == UploadCall \/ UploadBytesCall

SpecUpload == InitUpload /\ [][NextUpload]_vars

\* One run of a flat-corpus uploader, which Ctrl-C may end.
InitFlat == InitRun("scenario", 0, 0)

NextFlat == FlatStart \/ FlatUpload \/ FlatFinish \/ FlatInterrupt

SpecFlat == InitFlat /\ [][NextFlat]_vars

\* One run of the flat-corpus import.
InitRuiguan == InitRun("scenario", 0, 0)

SpecRuiguan == InitRuiguan /\ [][ImportBatch]_vars

\* Requests to the batch endpoints while the import thread runs.
InitService == InitRun("scenario", 0, 0)

NextService == StartEndpoint \/ ResetEndpoint \/ ServiceChanges

SpecService == InitService /\ [][NextService]_vars

\* Calls of the MinIO singleton, the server reachable or not.
InitMinio == InitRun("scenario", 0, 0)

NextMinio == ConnectCall \/ GetClientCall

SpecMinio == InitMinio /\ [][NextMinio]_vars

(* ------------------------------- properties ---------------------------- *)

Range(f) == {f[k] : k \in DOMAIN f}

\* The patent and file of the o-th image of the corpus, in the order the
\* loops visit them.
RECURSIVE Locate(_, _)
Locate(p, o) ==
  IF o <= Len(Corpus[p].images)
    THEN [patent |-> Corpus[p], file |-> Corpus[p].images[o]]
    ELSE Locate(p + 1, o - Len(Corpus[p].images))

ImageAt(o) == Locate(1, o)

\* The images of a call to insert_batch that the store took.
Landed(c) ==
  IF c.batch_ok THEN Range(c.ords)
  ELSE {c.ords[c.singles[k].i] : k \in {j \in DOMAIN c.singles : c.singles[j].ok}}

\* The images of this run that the store took.
Inserted == UNION {Landed(h_calls[k]) : k \in DOMAIN h_calls}

\* The failed individual inserts of a call to insert_batch.
Rejections(c) == {k \in DOMAIN c.singles : ~c.singles[k].ok}

\* The ledger lines written for an image of this run.
LinesOf(o) == {k \in DOMAIN failed_ords : failed_ords[k] = o}

\* A row of this run for the o-th image is in the store.
InStoreNow(o) ==
  \E k \in DOMAIN store :
    /\ store[k].embedding = Embedding(ImageAt(o).patent, ImageAt(o).file)
    /\ store[k].created_at = Now

\* C1: when a full batch of 16 is flushed, the batch insert fails and exactly
\* one individual insert fails, the run ends with the other 15 records in
\* the store and exactly one of the 16 in the failure ledger.
C1_OneLedgerLineForOneRejection ==
  pc = "done" =>
    \A n \in DOMAIN h_calls :
      LET c == h_calls[n]
      IN (Len(c.ords) = INSERT_BATCH_SIZE /\ ~c.batch_ok
            /\ Cardinality(Rejections(c)) = 1) =>
           /\ \A k \in DOMAIN c.ords :
                k \notin Rejections(c) => InStoreNow(c.ords[k])
           /\ Cardinality({k \in DOMAIN ledger.lines :
                             failed_ords[k] \in Range(c.ords)}) = 1

\* The DedupKey of a stored row.
KeyOf(row) == DedupKey(row.patent_id, row.file_name)

\* C2: after any sequence of append runs the store holds at most one record
\* per DedupKey: no record is inserted whose key the store already holds,
\* keys written earlier in the same run included.
C2_AtMostOneRecordPerKey ==
  h_only_append =>
    \A j, k \in DOMAIN store : KeyOf(store[j]) = KeyOf(store[k]) => j = k

\* C3: a second run in append mode over the unchanged corpus, against the
\* collection that holds every image of it, skips every image and inserts
\* nothing: success=0, fail=0, skip = number of images, same record count.
C3_SecondAppendRunInsertsNothing ==
  (pc = "done" /\ append /\ h_stored0) =>
    /\ success_count = 0
    /\ fail_count = 0
    /\ skip_count = NumImages(cid)
    /\ Len(store) = h_count0

\* C4: the set get_existing_keys returns holds the key of every record of
\* the collection, whatever rows each `id > last_id` page query returned.
C4_ExistingKeysComplete ==
  (pc = "scan" /\ append /\ ~h_keys_raised) =>
    \A k \in DOMAIN store : KeyOf(store[k]) \in existing_keys

\* C5: a run over a corpus none of whose images is stored, in which every
\* upload, extraction and insert succeeds, ends with success = the number of
\* images of the corpus, skip = 0, fail = 0 and that many records stored.
C5_CleanRunStoresEveryImage ==
  (pc = "done" /\ h_clean /\ h_count0 = 0) =>
    /\ success_count = NumImages(cid)
    /\ skip_count = 0
    /\ fail_count = 0
    /\ Len(store) = NumImages(cid)

\* Scenario A has run: 2 patents of 2 images, success=4 and 4 records.
C5_ScenarioA ==
  /\ pc = "done" /\ h_clean /\ h_count0 = 0
  /\ cid = "scenario"
  /\ patent_count = 2
  /\ success_count = 4
  /\ Len(store) = 4

\* C6: insert_batch never raises to its caller, and its per-record fallback
\* submits every record of the batch to an individual insert, in order,
\* however many earlier records of the batch failed.
C6_FallbackSubmitsEveryRecord ==
  \A n \in DOMAIN h_calls :
    LET c == h_calls[n]
    IN /\ ~c.raised
       /\ ~c.batch_ok =>
            /\ Len(c.singles) = Len(c.ords)
            /\ \A k \in DOMAIN c.singles : c.singles[k].i = k

\* A fallback in which two records were rejected and a later one was still
\* submitted and taken, in a run that went on to its end.
C6_TwoRejectedThenTaken ==
  /\ pc = "done"
  /\ \E n \in DOMAIN h_calls :
       LET c == h_calls[n]
       IN /\ ~c.batch_ok
          /\ Cardinality(Rejections(c)) = 2
          /\ \E k \in DOMAIN c.singles :
               /\ c.singles[k].ok
               /\ \A j \in Rejections(c) : j < k

\* C7: when the run completes, every record that was appended to the batch
\* has been passed to insert_batch: the partial batch left when the corpus
\* is exhausted is flushed with the same batch-then-per-record logic.
C7_EveryAppendedRecordSubmitted ==
  pc = "done" =>
    \A k \in DOMAIN h_appended :
      \E n \in DOMAIN h_calls : h_appended[k] \in Range(h_calls[n].ords)

\* A run ended by the flush of a partial batch, after a full one, that went
\* through the per-record fallback.
C7_PartialBatchFlushed ==
  /\ pc = "done"
  /\ Len(h_calls) = 2
  /\ Len(h_calls[1].ords) = INSERT_BATCH_SIZE
  /\ Len(h_calls[2].ords) \in 1..(INSERT_BATCH_SIZE - 1)
  /\ ~h_calls[2].batch_ok
  /\ Len(h_calls[2].singles) = Len(h_calls[2].ords)

\* C8: a stop requested during a run is observed between items only, and the
\* records accumulated in the batch are flushed before the run exits.
C8_StopBetweenItemsAfterFlush ==
  pc = "killed" =>
    /\ ~h_mid
    /\ \A k \in DOMAIN h_appended :
         \E n \in DOMAIN h_calls : h_appended[k] \in Range(h_calls[n].ords)

\* C9: at run end the failure ledger holds one line for each item that
\* failed and no line for an item whose record the store took.
C9_LedgerListsExactlyTheFailedItems ==
  pc = "done" =>
    /\ \A o \in Inserted : LinesOf(o) = {}
    /\ \A o \in 1..processed_images : Cardinality(LinesOf(o)) <= 1
    /\ Len(ledger.lines)
         = processed_images - skip_count - Cardinality(Inserted)

\* C10: truncate_str gives the empty string for None, the first max_len
\* characters of a longer string and a string of at most max_len characters
\* unchanged; every string field of a record in the batch is within the
\* max_length of its column.
C10_TruncationKeepsWithinSchema ==
  /\ t_in = None => t_out = << >>
  /\ t_in # None =>
       /\ Len(t_out) = (IF Len(t_in) > t_max THEN t_max ELSE Len(t_in))
       /\ \A k \in DOMAIN t_out : t_out[k] = t_in[k]
  /\ \A k \in DOMAIN batch_data :
       \A f \in DOMAIN SchemaMaxLen :
         Len(batch_data[k][f]) <= SchemaMaxLen[f]

\* A text longer than max_len was cut to max_len characters, and the batch
\* holds a record whose patent id, file name and title were cut to the
\* width of their columns.
C10_LongTextsCut ==
  /\ t_in # None /\ 0 < t_max /\ t_max < Len(t_in) /\ Len(t_out) = t_max
  /\ pc = "scan" /\ pidx = 1 /\ iidx = 1
  /\ Len(CurPatent.patent_id) > SchemaMaxLen.patent_id
  /\ Len(CurPatent.images[1]) > SchemaMaxLen.file_name
  /\ Len(CurPatent.title) > SchemaMaxLen.title
  /\ Len(batch_data) = 1
  /\ Len(batch_data[1].patent_id) = SchemaMaxLen.patent_id
  /\ Len(batch_data[1].file_name) = SchemaMaxLen.file_name
  /\ Len(batch_data[1].title) = SchemaMaxLen.title

\* C11: a reclamation pass runs each time the count of processed images
\* reaches a multiple of GC_INTERVAL, whatever became of that image.
C11_ReclaimAtEveryInterval ==
  \A o \in 1..processed_images :
    o % GC_INTERVAL = 0 => o \in Range(h_gc)

\* The position at which a patent is first seen in a hit list.
FirstSeen(hits, pid) ==
  CHOOSE k \in DOMAIN hits :
    /\ hits[k].patent_id = pid
    /\ \A j \in 1..(k - 1) : hits[j].patent_id # pid

\* The scores of the hits of a patent in a hit list.
ScoresOf(hits, pid) ==
  {hits[k].score : k \in {j \in DOMAIN hits : hits[j].patent_id = pid}}

\* The page a text of digits names: int(text).
RECURSIVE PageNumber(_)
PageNumber(text) ==
  IF text = << >> THEN 0
  ELSE 10 * PageNumber(SubSeq(text, 1, Len(text) - 1))
         + (CHOOSE i \in DOMAIN Digits : Digits[i] = text[Len(text)]) - 1

\* C12: in every group that group_by_patent returns, the pages are sorted by
\* page/image index ascending, whatever the order of the hits in the list.
C12_PagesAscending ==
  \A n \in DOMAIN grouping.calls :
    LET c == grouping.calls[n]
    IN /\ \A g \in DOMAIN c.out :
            \A i, j \in DOMAIN c.out[g].pages :
              i < j => c.out[g].pages[i].image_index
                         <= c.out[g].pages[j].image_index
       /\ \A g \in DOMAIN c.out_base :
            \A i, j \in DOMAIN c.out_base[g].pages :
              i < j => PageNumber(c.out_base[g].pages[i].page_num)
                         <= PageNumber(c.out_base[g].pages[j].page_num)

\* C13: group_by_patent returns the groups by max_score descending, where
\* max_score is the maximum score of the group's hits, and groups of equal
\* max_score in the order in which their patents were first seen.
C13_GroupsByMaxScoreThenFirstSeen ==
  \A n \in DOMAIN grouping.calls :
    LET c == grouping.calls[n]
        Ranked(out, arg) ==
          /\ \A g \in DOMAIN out :
               out[g].max_score = SetMax(ScoresOf(arg, out[g].patent_id))
          /\ \A g, h \in DOMAIN out :
               g < h =>
                 \/ out[g].max_score > out[h].max_score
                 \/ /\ out[g].max_score = out[h].max_score
                    /\ FirstSeen(arg, out[g].patent_id)
                         < FirstSeen(arg, out[h].patent_id)
    IN Ranked(c.out, c.arg) /\ Ranked(c.out_base, c.arg_base)

\* Two groups of equal max_score were returned, the first of them a patent
\* whose best hit came after the hit of the second.
C13_TieKeptInFirstSeenOrder ==
  \E n \in DOMAIN grouping.calls :
    LET c == grouping.calls[n]
    IN /\ Len(c.out) = 2 /\ Len(c.out_base) = 2
       /\ c.out[1].max_score = c.out[2].max_score
       /\ Len(c.arg) = 3
       /\ c.arg[1].patent_id = c.out[1].patent_id
       /\ c.arg[1].score < c.arg[2].score
       /\ c.arg[2].patent_id = c.out[2].patent_id
       /\ Len(c.arg_base) = 3
       /\ c.arg_base[1].patent_id = c.out_base[1].patent_id
       /\ c.arg_base[2].patent_id = c.out_base[2].patent_id

(* ------------------------- properties: search -------------------------- *)

\* C14: a raw hit returned by the store is kept by search if and only if its
\* score is greater than or equal to min_score: a hit of score exactly
\* min_score is included and a hit of a lower score is excluded.
C14_KeptIffAtLeastMinScore ==
  query.pc # "idle" =>
    \A k \in DOMAIN query.raw :
      (\E i \in DOMAIN query.results : query.results[i].id = query.raw[k].id)
        <=> query.raw[k].score >= query.min_score

\* C15: the threshold is applied before grouping: in a grouped search result
\* every page is a raw hit of score >= min_score, a group's max_score is the
\* maximum over the kept hits of its patent, and the raw hits X/1/0.9,
\* X/0/0.8, Y/0/0.95 with min_score 0.85 give Y first with page 0, then X
\* with page 1 only.
C15_ThresholdBeforeGrouping ==
  query.pc = "grouped" =>
    LET out == grouping.calls[Len(grouping.calls)].out
        raw == query.raw
        triples == {<< raw[k].entity.patent_id, raw[k].entity.image_index,
                       raw[k].score >> : k \in DOMAIN raw}
    IN /\ \A g \in DOMAIN out :
            /\ \A i \in DOMAIN out[g].pages :
                 /\ out[g].pages[i].score >= query.min_score
                 /\ \E k \in DOMAIN raw :
                      /\ raw[k].id = out[g].pages[i].id
                      /\ raw[k].score = out[g].pages[i].score
                      /\ raw[k].score >= query.min_score
            /\ out[g].max_score
                 = SetMax(ScoresOf(query.results, out[g].patent_id))
            /\ out[g].max_score >= query.min_score
       /\ (/\ triples = {<< << "X" >>, 1, 90 >>, << << "X" >>, 0, 80 >>,
                         << << "Y" >>, 0, 95 >>}
           /\ Len(raw) = 3
           /\ query.min_score = 85)
          => /\ Len(out) = 2
             /\ out[1].patent_id = << "Y" >>
             /\ [i \in DOMAIN out[1].pages |-> out[1].pages[i].image_index]
                  = << 0 >>
             /\ out[1].max_score = 95
             /\ out[2].patent_id = << "X" >>
             /\ [i \in DOMAIN out[2].pages |-> out[2].pages[i].image_index]
                  = << 1 >>
             /\ out[2].max_score = 90

\* The search of the example has been grouped: X's page 1 at 0.9 and page 0
\* at 0.8, Y's page 0 at 0.95, min_score 0.85.
C15_OnePageBelowOneAbove ==
  /\ query.pc = "grouped"
  /\ Len(query.raw) = 3
  /\ query.min_score = 85
  /\ {<< query.raw[k].entity.patent_id, query.raw[k].entity.image_index,
         query.raw[k].score >> : k \in DOMAIN query.raw}
       = {<< << "X" >>, 1, 90 >>, << << "X" >>, 0, 80 >>, << << "Y" >>, 0, 95 >>}
  /\ Len(grouping.calls[Len(grouping.calls)].out) = 2

\* C16: the search requests 2*top_k raw candidates, and whenever the store
\* holds hits of score >= min_score that match the filters for at least
\* top_k distinct patents, the response contains top_k grouped results.
C16_TopKGroupsWhenEnoughQualify ==
  query.pc = "grouped" =>
    LET out == grouping.calls[Len(grouping.calls)].out
        qualifying ==
          {store[k].patent_id :
             k \in {j \in DOMAIN store :
                      /\ Matches(store[j], query.expr)
                      /\ query.scores[store[j].embedding] >= query.min_score}}
    IN /\ query.limit = 2 * query.top_k
       /\ Cardinality(qualifying) >= query.top_k => Len(out) = query.top_k

\* C17: within every group returned by group_by_patent for a hit list of the
\* search, the image indices of the pages are pairwise distinct.
C17_PageIndicesDistinct ==
  query.pc = "grouped" =>
    LET out == grouping.calls[Len(grouping.calls)].out
    IN \A g \in DOMAIN out :
         \A i, j \in DOMAIN out[g].pages :
           i # j => out[g].pages[i].image_index # out[g].pages[j].image_index

\* C18: the filter expression sent to the store is the AND-conjunction of
\* exactly the supplied filters (title contains keyword, loc_class equals
\* the classification, applicant_name contains applicant): its operands are
\* the comparisons of the supplied filters and no other, the hits are rows
\* that meet every supplied filter, a filter that is not supplied excludes no
\* row, and with no filter supplied the search is issued with expr = None.
C18_ExprIsConjunctionOfSupplied ==
  query.pc # "idle" =>
    LET kw == query.keyword # None /\ query.keyword # << >>
        lc == query.loc_class # None /\ query.loc_class # << >>
        ap == query.applicant # None /\ query.applicant # << >>
        wanted ==
          (IF kw THEN {TitleLikeHead \o query.keyword \o LikeTail} ELSE {})
            \cup (IF lc THEN {LocClassHead \o query.loc_class \o EqTail}
                        ELSE {})
            \cup (IF ap THEN {ApplicantLikeHead \o query.applicant \o LikeTail}
                        ELSE {})
        Meets(row) ==
          /\ kw => Contains(row.title, query.keyword)
          /\ lc => row.loc_class = query.loc_class
          /\ ap => Contains(row.applicant_name, query.applicant)
        hit_ids == {query.raw[k].id : k \in DOMAIN query.raw}
    IN /\ (query.expr = None) <=> (~kw /\ ~lc /\ ~ap)
       /\ query.expr # None =>
            /\ Len(Operands(query.expr)) = Cardinality(wanted)
            /\ {Operands(query.expr)[k] : k \in DOMAIN Operands(query.expr)}
                 = wanted
       /\ \A k \in DOMAIN store : store[k].id \in hit_ids => Meets(store[k])
       /\ Len(query.raw) < query.limit =>
            \A k \in DOMAIN store : Meets(store[k]) => store[k].id \in hit_ids

\* A search with a keyword and a classification and no applicant found the
\* rows of one patent and left out a row of another, with room to spare.
C18_TwoFiltersOneAbsent ==
  /\ query.pc # "idle"
  /\ query.keyword = << "a" >>
  /\ query.loc_class = << "0","1" >>
  /\ query.applicant = None
  /\ query.raw # << >>
  /\ Len(query.raw) < query.limit
  /\ \E k \in DOMAIN store :
       \A i \in DOMAIN query.raw : query.raw[i].id # store[k].id

\* C19: group_by_patent is pure: two calls with the same hit list return the
\* same grouped result, which holds the hits of that list and no other, and
\* a call leaves the hit list and its hit records as they were: what the
\* caller finds in its list after the call is what it held before.
C19_SameHitsSameGroups ==
  \A m, n \in DOMAIN grouping.calls :
    LET c == grouping.calls[m]
        d == grouping.calls[n]
        Total(out) ==
          LET RECURSIVE Sum(_)
              Sum(g) == IF g = 0 THEN 0 ELSE Sum(g - 1) + Len(out[g].pages)
          IN Sum(Len(out))
    IN /\ c.after = c.arg
       /\ c.after_base = c.arg_base
       /\ Total(c.out) = Len(c.arg)
       /\ Total(c.out_base) = Len(c.arg_base)
       /\ c.arg = d.arg => c.out = d.out
       /\ c.arg_base = d.arg_base => c.out_base = d.out_base

\* group_by_patent has been called twice with the same list of three hits of
\* two patents.
C19_CalledTwiceWithSameHits ==
  /\ Len(grouping.calls) = 2
  /\ grouping.calls[1].ref = grouping.calls[2].ref
  /\ grouping.calls[1].ref_base = grouping.calls[2].ref_base
  /\ grouping.calls[1].arg = grouping.calls[2].arg
  /\ Len(grouping.calls[1].arg) = 3
  /\ Len(grouping.calls[1].out) = 2
  /\ grouping.calls[1].arg_base = grouping.calls[2].arg_base
  /\ Len(grouping.calls[1].arg_base) = 3
  /\ Len(grouping.calls[2].out_base) = 2

(* ----------------------- properties: corpus root ----------------------- *)

\* C20: if the corpus root directory does not exist, the run aborts
\* immediately: its only step is the abort, which leaves the collection and
\* its rows as they were, and it does not proceed to the scan or to
\* completion as a normal run that processed zero items.
C20_MissingRootAborts ==
  [][~RootExists(cid) =>
       /\ pc' \in {"idle", "crashed"}
       /\ has_collection' = has_collection
       /\ store' = store]_vars

(* ------------------- properties: failures and the scan ------------------ *)

\* C21: a failure of a single item (no local file, no URL from the upload,
\* an exception while the item is uploaded, extracted or batched) leaves the
\* run in the loop at the next image; an item that gave no record is counted
\* and gets its line in failed_records; and a run that ends has gone through
\* every image of the corpus.
C21_ItemFailureIsLocal ==
  /\ [](pc # "crashed")
  /\ [](pc = "done" => processed_images = NumImages(cid))
  /\ [][(/\ pc = "scan"
         /\ processed_images' = processed_images + 1
         /\ faults_left' < faults_left)
        => /\ pc' = "scan"
           /\ pidx' = pidx
           /\ iidx' = iidx + 1
           /\ h_appended' = h_appended =>
                /\ fail_count' = fail_count + 1
                /\ Len(failed_records') = Len(failed_records) + 1
                /\ failed_records'[Len(failed_records')][1] = CurPatent.patent_id
                /\ failed_records'[Len(failed_records')][2] = ImgFile]_vars

\* A run ended in which an image failed and a later image gave a record.
C21_LaterItemAfterFailure ==
  /\ pc = "done"
  /\ fail_count > 0
  /\ \E k \in DOMAIN failed_ords : \E j \in DOMAIN h_appended :
       h_appended[j] > failed_ords[k]
  /\ Len(failed_records) >= fail_count

\* C22: the scanner emits a patent record for a subdirectory only when the
\* subdirectory holds exactly one XML file and it parses; a subdirectory
\* with no or with more than one XML file, or whose file fails to parse, is
\* skipped with a diagnostic, and the scan goes through every subdirectory.
C22_OnlySingleParsableXmlEmitted ==
  scanner.pc = "returned" =>
    /\ scanner.pos = Len(scanner.dirs)
    /\ \A e \in DOMAIN scanner.dirs :
         LET entry == scanner.dirs[e]
             emitted == \E k \in DOMAIN scanner.returned :
                          scanner.returned[k].entry = e
             logged == \E k \in DOMAIN scanner.log :
                         /\ scanner.log[k].entry = e
                         /\ scanner.log[k].line # "parsed"
         IN entry.is_dir =>
              /\ emitted <=> (Len(entry.xmls) = 1 /\ entry.xmls[1].parses)
              /\ ~emitted => logged

\* C23: the scan is lazy: the scanner never holds more than one patent
\* record, and a record it has parsed is with its caller before the entries
\* after it are read.
C23_ScanHoldsAtMostOnePatent ==
  /\ Len(scanner.patents) <= 1
  /\ (/\ scanner.pc = "scanning"
      /\ scanner.patents # << >>
      /\ scanner.patents[1].entry < scanner.pos)
       => scanner.returned # << >>

(* ----------------------- properties: the object store ------------------ *)

\* C24: upload_image_to_minio is idempotent: when the object key
\* <prefix>/<patent_id>/<file_name> is in the bucket it uploads nothing,
\* leaves the bucket as it is and returns the URL of that key; and a call
\* that follows a successful call for the same image changes nothing and
\* returns the same URL.
C24_UploadIdempotent ==
  \A n \in DOMAIN uploads :
    LET c == uploads[n]
        key == MINIO_PREFIX \o << "/" >> \o c.patent_id \o << "/" >> \o c.file_name
    IN /\ key \in c.before =>
            /\ ~c.put
            /\ c.after = c.before
            /\ c.url = UrlBase \o key
       /\ c.url # None => key \in c.after /\ c.url = UrlBase \o key
       /\ (/\ n > 1
           /\ uploads[n - 1].patent_id = c.patent_id
           /\ uploads[n - 1].file_name = c.file_name
           /\ uploads[n - 1].url # None)
          => /\ ~c.put
             /\ c.after = uploads[n - 1].after
             /\ c.url = uploads[n - 1].url

(* ----------------------- properties: the collection -------------------- *)

\* C25: the rows of the collection go away only at the start of a run
\* without --append; a run started with --append keeps every row, whether
\* the collection existed or had to be created, and only adds rows after.
C25_OnlyRecreateDrops ==
  /\ [][(runs_left' < runs_left /\ append')
          => /\ store' = store
             /\ has_collection']_vars
  /\ [][\/ /\ Len(store') >= Len(store)
           /\ SubSeq(store', 1, Len(store)) = store
        \/ runs_left' < runs_left /\ ~append']_vars

\* A run with --append over a collection that held rows has ended, and the
\* rows are still there.
C25_AppendRunOverRows ==
  /\ pc = "done"
  /\ append
  /\ h_count0 > 0
  /\ Len(store) >= h_count0
  /\ runs_left = 0

(* ----------------------- properties: the endpoints --------------------- *)

\* The endings of a request that the handler answers.
Answered ==
  /\ query.pc = "failed" =>
       /\ query.reply.code # 0
       /\ query.reply.message = query.raised
       /\ query.reply.data = None
  /\ query.pc = "replied" =>
       /\ query.raised = None
       /\ query.reply.code = 0
       /\ query.reply.data.results = grouping.calls[Len(grouping.calls)].out
       /\ query.reply.data.total_matched = Len(query.results)
  /\ query.pc \in {"idle", "searched", "grouped"} => query.reply = NoReply

\* C26 (as amended): an Exception raised while the image is decoded, its
\* features are extracted, the store is searched (a missing collection
\* included) or the hits are grouped gives an envelope with a non-zero code,
\* the exception's text as message and data null, and a search that went
\* through gives code 0 with the groups; the one request that ends without
\* an envelope is the one cancelled while the handler awaits the upload.
C26_EnvelopeUnlessCancelled ==
  /\ query.pc \in {"idle", "searched", "grouped", "failed", "replied",
                   "cancelled"}
  /\ Answered
  /\ query.pc = "cancelled" =>
       /\ query.reply = NoReply
       /\ query.results = << >> /\ grouping.calls = << >>

\* C26 (as stated): an exception raised while the image is decoded, its
\* features are extracted, the store is searched or the hits are grouped
\* gives an envelope with a non-zero code, the exception's text as message
\* and data null, and a search that went through gives code 0 with the
\* groups; a request ends in one of the two, no exception leaves the
\* handler.
C26_AlwaysAnEnvelope ==
  /\ query.pc \in {"idle", "searched", "grouped", "failed", "replied"}
  /\ Answered

\* The grouping of the hits of a search raised, and the request was answered.
C26_GroupingRaised ==
  /\ query.pc = "failed"
  /\ query.results # << >>
  /\ query.raised # None
  /\ query.reply # NoReply

(* ----------------------- properties: progress -------------------------- *)

\* C27: a progress report with the counters is emitted each time the number
\* of processed images reaches a multiple of the reporting interval.
C27_ReportAtEveryInterval ==
  pc \in {"scan", "done"} =>
    \A o \in 1..processed_images :
      o % PROGRESS_INTERVAL = 0 => \E k \in DOMAIN h_reports : h_reports[k] = o

(* ----------------------- properties: the flat corpus ------------------- *)

\* C28: a flat-corpus uploader uploads no file of the key set it loaded at
\* start, persists only files it loaded or uploaded, and saves the set in
\* the course of the run, so that at no moment (an interrupt included) an
\* interval's worth of uploads is missing from the persisted set.
C28_ProgressSavedPeriodically ==
  /\ \A k \in DOMAIN flat.puts : flat.puts[k] \notin flat.loaded
  /\ flat.progress_file
       \subseteq flat.loaded \cup {flat.puts[k] : k \in DOMAIN flat.puts}
  /\ Cardinality({flat.puts[k] : k \in DOMAIN flat.puts} \ flat.progress_file)
       < SAVE_INTERVAL
  /\ flat.pc = "done" =>
       \A k \in DOMAIN flat.puts : flat.puts[k] \in flat.progress_file

\* C29: when batch extraction fails every image of the batch is extracted
\* on its own; an image whose extraction fails is counted as failed and
\* left out, and every record made or inserted pairs a file name with the
\* embedding of that file.
C29_FallbackKeepsAlignment ==
  /\ \A k \in DOMAIN ruiguan.rows :
       ruiguan.rows[k].embedding = << "emb", ruiguan.rows[k].file_name >>
  /\ \A k \in DOMAIN ruiguan.insert_data :
       ruiguan.insert_data[k].embedding
         = << "emb", ruiguan.insert_data[k].file_name >>
  /\ LET good == {k \in DOMAIN ruiguan.files : k \notin ruiguan.bad}
     IN /\ Len(ruiguan.insert_data) = Cardinality(good)
        /\ {ruiguan.insert_data[k].file_name : k \in DOMAIN ruiguan.insert_data}
             = {ruiguan.files[k] : k \in good}
  /\ ruiguan.fail_count >= Cardinality(ruiguan.bad)

\* Batch extraction failed, the first file of the batch failed on its own
\* too, and the files after it were inserted.
C29_FirstFileFailsAlone ==
  /\ ~ruiguan.batch_ok
  /\ ruiguan.bad = {1}
  /\ Len(ruiguan.files) = 3
  /\ Len(ruiguan.insert_data) = 2
  /\ Len(ruiguan.rows) >= 2
  /\ ruiguan.fail_count >= 1

(* ----------------------- properties: the batch ------------------------- *)

\* C30: between two items the batch holds fewer than INSERT_BATCH_SIZE
\* records: the item that fills it triggers insert_batch with all of them,
\* and the batch is empty after that call whether it returned True or False.
C30_BatchBelowCapacity ==
  /\ [](Len(batch_data) < INSERT_BATCH_SIZE)
  /\ [](Len(batch_data) = Len(batch_ords))
  /\ [][(pc = "scan" /\ pc' = "scan" /\ Len(h_calls') = Len(h_calls) + 1)
          => /\ Len(h_calls'[Len(h_calls')].ords) = INSERT_BATCH_SIZE
             /\ batch_data' = << >>]_vars

\* A capacity flush that returned False lies behind, the batch is empty and
\* the run is at the next item.
C30_EmptyAfterFailedFlush ==
  /\ pc = "scan"
  /\ processed_images = INSERT_BATCH_SIZE
  /\ batch_data = << >>
  /\ Len(h_calls) = 1
  /\ ~h_calls[1].ok

\* The calls of insert_batch of this run that were handed the o-th image.
CallsWith(o) == {n \in DOMAIN h_calls : o \in Range(h_calls[n].ords)}

\* The individual inserts of a call that submitted the record at index k.
SinglesOf(c, k) == {j \in DOMAIN c.singles : c.singles[j].i = k}

\* C31: each accumulated record is submitted to the store at most twice:
\* as part of exactly one batch insert call and, only if that call failed,
\* once more as an individual insert; a batch call that succeeds is followed
\* by no individual insert, and a record whose individual insert failed is
\* not submitted again.
C31_AtMostOneFallbackPerRecord ==
  /\ \A k \in DOMAIN h_appended :
       /\ Cardinality(CallsWith(h_appended[k])) <= 1
       /\ pc = "done" => Cardinality(CallsWith(h_appended[k])) = 1
  /\ \A n \in DOMAIN h_calls :
       LET c == h_calls[n]
       IN /\ \A k \in DOMAIN c.ords :
               /\ c.ords[k] \in Range(h_appended)
               /\ \A j \in DOMAIN c.ords : c.ords[j] = c.ords[k] => j = k
               /\ Cardinality(SinglesOf(c, k)) <= 1
          /\ c.batch_ok => c.singles = << >>

\* A run that is over made a batch call that went through, and a batch call
\* that failed and whose fallback had one record rejected and another taken.
C31_OneCallThroughOneFellBack ==
  /\ pc = "done"
  /\ \E m, n \in DOMAIN h_calls :
       /\ h_calls[m].batch_ok
       /\ ~h_calls[n].batch_ok
       /\ Rejections(h_calls[n]) # {}
       /\ \E k \in DOMAIN h_calls[n].singles : h_calls[n].singles[k].ok

\* C32: insert_batch returns true if and only if every record of the batch
\* was inserted, by the batch call or by its individual insert; it returns
\* false as soon as one record failed individually, also when other records
\* of the batch were inserted.
C32_TrueIffEveryRecordInserted ==
  \A n \in DOMAIN h_calls :
    LET c == h_calls[n]
    IN /\ c.ok <=> (Landed(c) = Range(c.ords))
       /\ Rejections(c) # {} => ~c.ok
       /\ \A k \in DOMAIN store :
            \A o \in Range(c.ords) \ Landed(c) :
              (store[k].created_at = Now /\ k > h_count0) =>
                store[k].embedding
                  # Embedding(ImageAt(o).patent, ImageAt(o).file)

\* One call fell back and returned false though it inserted some of its
\* records, and another fell back, inserted every record and returned true.
C32_FalseOnPartTrueOnAll ==
  \E m, n \in DOMAIN h_calls :
    /\ ~h_calls[m].batch_ok /\ ~h_calls[m].ok
    /\ Landed(h_calls[m]) # {}
    /\ Rejections(h_calls[m]) # {}
    /\ ~h_calls[n].batch_ok /\ h_calls[n].ok
    /\ Landed(h_calls[n]) = Range(h_calls[n].ords)

\* The object name of the o-th image of the corpus.
ObjectOf(o) == ObjectName(ImageAt(o).patent.patent_id, ImageAt(o).file)

\* C33: for an image whose DedupKey is in the dedup index the run makes no
\* existence check or upload, no extraction and no insert; for every other
\* image upload comes before extraction and extraction before batching, so
\* every record in the batch or handed to the store refers to an object that
\* is in the bucket.
C33_SkipDoesNothingUploadComesFirst ==
  /\ [](\A k \in DOMAIN batch_data :
          /\ ObjectOf(batch_ords[k]) \in objects
          /\ batch_data[k].file_path
               = truncate_str(GetUrl(ObjectOf(batch_ords[k])), LEN_FILE_PATH))
  /\ [](\A n \in DOMAIN h_calls :
          \A o \in Range(h_calls[n].ords) : ObjectOf(o) \in objects)
  /\ [](\A k \in DOMAIN failed_records :
          failed_records[k][3] = "error" => ObjectOf(failed_ords[k]) \in objects)
  /\ [][(pc = "scan" /\ processed_images' = processed_images + 1 /\ Skipped)
          => /\ skip_count' = skip_count + 1
             /\ UNCHANGED << objects, store, next_id, batch_data, h_appended,
                             h_calls, success_count, fail_count,
                             failed_records >>]_vars

\* An append run is over that skipped the images it found stored and
\* uploaded and inserted one that was not.
C33_SkippedSomeInsertedAnother ==
  /\ pc = "done" /\ append
  /\ skip_count > 0
  /\ \E o \in Inserted : ObjectOf(o) \in objects /\ InStoreNow(o)

\* C34: in group_by_patent of the design search the patent-level metadata
\* of a group is that of the first hit of the patent in the hit list; later
\* hits of the patent do not overwrite it, also when their metadata differs.
C34_MetadataOfFirstHit ==
  \A n \in DOMAIN grouping.calls :
    LET c == grouping.calls[n]
    IN \A g \in DOMAIN c.out :
         LET first == Metadata(c.arg[FirstSeen(c.arg, c.out[g].patent_id)])
         IN \A f \in DOMAIN first : c.out[g][f] = first[f]

\* A hit list in which a later hit of a patent has another title than its
\* first hit has been grouped, and the group holds both pages.
C34_LaterHitWithOtherTitle ==
  \E n \in DOMAIN grouping.calls :
    LET c == grouping.calls[n]
    IN \E i, j \in DOMAIN c.arg :
         /\ i < j
         /\ i = FirstSeen(c.arg, c.arg[i].patent_id)
         /\ c.arg[j].patent_id = c.arg[i].patent_id
         /\ c.arg[j].title # c.arg[i].title
         /\ \E g \in DOMAIN c.out :
              /\ c.out[g].patent_id = c.arg[i].patent_id
              /\ Len(c.out[g].pages) >= 2
              /\ c.out[g].title = c.arg[i].title

\* C35: after every processed image of a run, success_count + skip_count +
\* fail_count equals processed_images: each image is counted in exactly one
\* of succeeded, skipped or failed, also when an exception is raised after
\* its record was appended to the batch.
C35_EachImageCountedOnce ==
  pc \in {"scan", "done"} =>
    success_count + skip_count + fail_count = processed_images

\* C36: at the end of a run success_count equals the number of records the
\* run inserted into the store, also when batch or individual inserts
\* failed.
C36_SuccessCountIsInsertedCount ==
  pc = "done" =>
    /\ success_count = Len(store) - h_count0
    /\ success_count = Cardinality(Inserted)

\* C37: the dedup key is injective: images of different (patent_id,
\* file_name) never have the same key, the key computed for a corpus image
\* is the key rebuilt from its stored record, and so an image is skipped
\* only if that very image is already stored.
C37_DedupKeyIdentifiesImage ==
  /\ \A j, k \in DOMAIN store :
       KeyOf(store[j]) = KeyOf(store[k]) =>
         /\ store[j].patent_id = store[k].patent_id
         /\ store[j].file_name = store[k].file_name
  /\ \A o \in Inserted :
       \A k \in DOMAIN store :
         store[k].embedding = Embedding(ImageAt(o).patent, ImageAt(o).file)
           => KeyOf(store[k])
                = DedupKey(ImageAt(o).patent.patent_id, ImageAt(o).file)
  /\ (pc = "scan" /\ pidx > 0 /\ iidx < Len(CurPatent.images) /\ Skipped)
       => Stored(CurPatent, ImgFile, store)

\* C38: the paginated scan of get_existing_keys terminates for every finite
\* collection: last_id strictly increases with every non-empty page, and
\* the loop ends at the first empty page or query error.
C38_KeyScanTerminates ==
  /\ [][(pc = "keys" /\ pc' = "keys") => last_id' > last_id]_vars
  /\ [][(pc = "keys" /\ pc' = "scan")
          => /\ Matching(store, last_id) = {} \/ h_keys_raised'
             /\ UNCHANGED << last_id, existing_keys >>]_vars
  /\ [][(pc = "keys" /\ Matching(store, last_id) = {}) => pc' = "scan"]_vars
  /\ <>(pc = "scan")

\* The scan of a collection of more than one page has ended at the empty
\* page that followed the last row, without an error.
C38_EndedAfterSeveralPages ==
  /\ pc = "scan" /\ ~h_keys_raised
  /\ Len(store) > QUERY_LIMIT
  /\ last_id = store[Len(store)].id

(* ----------------------- properties: the services ---------------------- *)

C40_TrueOnlyAfterBucketVerified ==
  \A k \in DOMAIN minio.calls :
    LET c == minio.calls[k]
    IN c.op = "connect" =>
         /\ c.returned =>
              \E j \in 1..k : minio.calls[j].verified
         /\ (k > 1 /\ minio.calls[k - 1].op = "connect"
               /\ ~minio.calls[k - 1].returned) => c.attempted


====
